---- MODULE Spec2Model ----
(***************************************************************************)
(* Score decoding and rendering of the RLToolUseEval frontend             *)
(* (src/frontend/static/app.js): extractScore, normalizeScoreValue,        *)
(* parseResponseJSON, renderEvaluationView, the presentation of a score    *)
(* (getScoreClass, getScoreStyle, formatScore), renderScoreSummary and     *)
(* handleDownloadCsv, with the callers that feed them.                     *)
(*                                                                         *)
(* Text is a sequence of atoms.  An atom is a string that stands for a     *)
(* fixed run of characters of the JavaScript string: a punctuation mark,   *)
(* a digit, a white-space character, or a word.  Words are cut so that no  *)
(* pattern of the source matches across the inside of an atom: the key     *)
(* overall_score is the two atoms "overall_" "score", because the loose    *)
(* pattern /score:.../i matches inside it.                                 *)
(*                                                                         *)
(* Numbers are exact decimals [m, e] = m / 10^e, kept normalised, so two   *)
(* numbers are equal iff their records are equal.  The alphabet has no     *)
(* exponent letter, no backslash and no "Infinity".                        *)
(***************************************************************************)
EXTENDS Integers, Sequences, FiniteSets, TLC

VARIABLES
    result,        \* results[name]: one dimension's entry of evaluation_results
    response,      \* result.response || result, the argument of both decoders
    score,         \* what extractScore(response) returned (or threw)
    parsed,        \* what parseResponseJSON(response) returned
    overallScore,  \* renderEvaluationView: normalizeScoreValue(data.overall_score)
    content,       \* contentHtml of the dimension card: evaluation view or raw text
    value,         \* the argument of a direct normalizeScoreValue call
    normalized,    \* what normalizeScoreValue(value) returned
    shown,         \* class, style and label that present the normalized score
    results,       \* evaluation_results: dimension name -> result
    cards,         \* what renderScoreSummary wrote into the score summary
    csv,           \* the score cells handleDownloadCsv wrote
    labelValue,    \* the argument of a formatLabel call, one character per element
    labelText,     \* what formatLabel(labelValue) returned
    isEvaluating,              \* let isEvaluating
    currentResults,            \* let currentResults
    currentTaskData,           \* let currentTaskData
    evaluateBtnDisabled,       \* evaluateBtn.disabled
    progressHidden,            \* progress.classList has 'hidden'
    uploadHidden,              \* uploadSection.classList has 'hidden'
    resultsHidden,             \* resultsSection.classList has 'hidden'
    emailModalHidden,          \* emailModal.classList has 'hidden'
    reviewerEmailGroupHidden,  \* reviewerEmailGroup.classList has 'hidden'
    savedEmail,                \* localStorage item REVIEWER_EMAIL_KEY (Null when unset)
    reviewerEmailInput,        \* reviewerEmailInput.value
    modalEmailInput,           \* modalEmailInput.value
    taskIdInput,               \* taskIdInput.value
    evaluations,               \* handleEvaluate calls suspended at an await
    started,                   \* number of requests handleEvaluate has sent
    alerts,                    \* the messages of the alert(...) calls made, without 'Error: '
    fetchTaskBtnDisabled,      \* fetchTaskBtn.disabled: a handleFetchTask call is suspended
    loads,                     \* the loadAdminResults calls made: the response of each and whether it has arrived
    adminSummary,              \* adminSummary.textContent
    adminTable,                \* adminTable.innerHTML
    adminGrouped,              \* adminGrouped.innerHTML
    adminResults               \* the results last handed to renderAdminResults

normalizeVars == <<value, normalized, shown>>
summaryVars == <<results, cards, csv>>
decodeVars == <<result, response, score, parsed, overallScore, content>>
labelVars == <<labelValue, labelText>>
appVars ==
    <<isEvaluating, currentResults, currentTaskData, evaluateBtnDisabled,
      progressHidden, uploadHidden, resultsHidden, emailModalHidden,
      reviewerEmailGroupHidden, savedEmail, reviewerEmailInput, modalEmailInput,
      taskIdInput, evaluations, started, alerts,
      fetchTaskBtnDisabled>>
adminVars == <<loads, adminSummary, adminTable, adminGrouped, adminResults>>
pageVars == <<labelVars, appVars, adminVars>>

vars == <<decodeVars, normalizeVars, summaryVars, pageVars>>

(***************************************************************************)
(* Atoms                                                                   *)
(***************************************************************************)
QT == "\""       \* the double quote
BT == "'''"      \* three backticks
SP == " "
NL == "\n"

IsWs(a) == a \in {SP, NL}
IsDigit(a) == a \in {"0", "1", "2", "3", "4", "5", "6", "7", "8", "9"}

DigitVal(a) ==
    CASE a = "0" -> 0 [] a = "1" -> 1 [] a = "2" -> 2 [] a = "3" -> 3
      [] a = "4" -> 4 [] a = "5" -> 5 [] a = "6" -> 6 [] a = "7" -> 7
      [] a = "8" -> 8 [] a = "9" -> 9

\* String.prototype.toLowerCase on one atom.
LowerAtom(a) ==
    CASE a \in {"PASS", "Pass"} -> "pass"
      [] a \in {"FAIL", "Fail"} -> "fail"
      [] a \in {"Score", "SCORE"} -> "score"
      [] a \in {"Overall_", "OVERALL_"} -> "overall_"
      [] a = "@TURING.COM" -> "@turing.com"
      [] a = "Rev" -> "rev"
      [] OTHER -> a

toLowerCase(s) == [i \in 1..Len(s) |-> LowerAtom(s[i])]

\* String.prototype.includes: sub occurs in s as a contiguous run.
includes(s, sub) ==
    \E i \in 1..(Len(s) - Len(sub) + 1) :
        \A k \in 1..Len(sub) : s[i + k - 1] = sub[k]

(***************************************************************************)
(* JavaScript values                                                       *)
(***************************************************************************)
Undefined == [t |-> "undefined"]
Null == [t |-> "null"]
NaN == [t |-> "NaN"]
Bool(b) == [t |-> "boolean", b |-> b]
Str(s) == [t |-> "string", s |-> s]
Obj(kv) == [t |-> "object", kv |-> kv]      \* kv: <<[k |-> key atoms, v |-> value]>>
Arr(a) == [t |-> "array", a |-> a]
TypeError == [t |-> "TypeError"]            \* a thrown TypeError
SyntaxError == [t |-> "SyntaxError"]        \* a thrown SyntaxError
Pending == [t |-> "pending"]                \* the call has not been made

RECURSIVE Pow10(_)
Pow10(n) == IF n = 0 THEN 1 ELSE 10 * Pow10(n - 1)

RECURSIVE TrailingZeros(_, _)
TrailingZeros(m, e) ==
    IF e > 0 /\ m % 10 = 0 THEN TrailingZeros(m \div 10, e - 1) + 1 ELSE 0

\* The number m / 10^e.
Num(m, e) ==
    LET z == TrailingZeros(m, e)
    IN  [t |-> "number", m |-> m \div Pow10(z), e |-> e - z]

PASS == Str(<<"PASS">>)
FAIL == Str(<<"FAIL">>)

\* ToBoolean
Truthy(v) ==
    CASE v.t \in {"undefined", "null", "NaN"} -> FALSE
      [] v.t = "boolean" -> v.b
      [] v.t = "number" -> v.m # 0
      [] v.t = "string" -> v.s # <<>>
      [] OTHER -> TRUE

HasKey(o, key) == o.t = "object" /\ \E i \in 1..Len(o.kv) : o.kv[i].k = key

\* o.key for a value that is neither null nor undefined: the property of an
\* object, undefined on an array or a primitive (none of the keys read here
\* is a property of String, Number, Boolean or Array).
Get(o, key) ==
    IF HasKey(o, key)
    THEN o.kv[CHOOSE i \in 1..Len(o.kv) : o.kv[i].k = key].v
    ELSE Undefined

\* o[key] = v as JSON.parse does it: a repeated key keeps its first position
\* and takes the last value.
ObjSet(kv, key, v) ==
    IF \E i \in 1..Len(kv) : kv[i].k = key
    THEN [i \in 1..Len(kv) |-> IF kv[i].k = key THEN [k |-> key, v |-> v] ELSE kv[i]]
    ELSE Append(kv, [k |-> key, v |-> v])

(***************************************************************************)
(* The variables of the parts a specification does not exercise            *)
(***************************************************************************)
LabelIdle == labelValue = <<>> /\ labelText = Pending

\* app.js as loaded, before init() has run.
AppIdle ==
    /\ isEvaluating = FALSE
    /\ currentResults = Null
    /\ currentTaskData = Null
    /\ evaluateBtnDisabled = FALSE
    /\ progressHidden = TRUE
    /\ uploadHidden = FALSE
    /\ resultsHidden = TRUE
    /\ emailModalHidden = TRUE
    /\ reviewerEmailGroupHidden = FALSE
    /\ savedEmail = Null
    /\ reviewerEmailInput = <<>>
    /\ modalEmailInput = <<>>
    /\ taskIdInput = <<>>
    /\ evaluations = {}
    /\ started = 0
    /\ alerts = <<>>
    /\ fetchTaskBtnDisabled = FALSE

\* admin.js as loaded, before initAdmin() has run.
AdminIdle ==
    /\ loads = <<>>
    /\ adminSummary = <<>>
    /\ adminTable = Str(<<>>)
    /\ adminGrouped = Str(<<>>)
    /\ adminResults = Undefined

PageIdle == LabelIdle /\ AppIdle /\ AdminIdle

DecodeIdle ==
    /\ result = Undefined
    /\ response = Null
    /\ score = Pending
    /\ parsed = Pending
    /\ overallScore = Pending
    /\ content = Pending

NormalizeIdle == value = Undefined /\ normalized = Pending /\ shown = Pending

SummaryIdle == results = Undefined /\ cards = Pending /\ csv = Pending

(***************************************************************************)
(* Scanning helpers                                                        *)
(***************************************************************************)
\* First index >= i that holds no white space (Len(s) + 1 when none).
SkipWs(s, i) ==
    CHOOSE j \in i..(Len(s) + 1) :
        /\ \A k \in i..(j - 1) : IsWs(s[k])
        /\ (j = Len(s) + 1 \/ ~IsWs(s[j]))

\* First index >= i that holds no digit (Len(s) + 1 when none).
SkipDigits(s, i) ==
    CHOOSE j \in i..(Len(s) + 1) :
        /\ \A k \in i..(j - 1) : IsDigit(s[k])
        /\ (j = Len(s) + 1 \/ ~IsDigit(s[j]))

\* The value of the digits s[i..j-1] read as a decimal integer.
RECURSIVE DigitsVal(_, _, _)
DigitsVal(s, i, j) ==
    IF j <= i THEN 0 ELSE 10 * DigitsVal(s, i, j - 1) + DigitVal(s[j - 1])

At(s, i) == IF i >= 1 /\ i <= Len(s) THEN s[i] ELSE ""

\* The end of the longest  digits [. digits]  run that starts at i, read as a
\* number; i itself when s[i] is no digit.  (\d+(?:\.\d+)?)
DecimalEnd(s, i) ==
    LET d == SkipDigits(s, i)
        f == SkipDigits(s, d + 1)
    IN  IF d > i /\ At(s, d) = "." /\ f > d + 1 THEN f ELSE d

DecimalVal(s, i) ==
    LET d == SkipDigits(s, i)
        f == SkipDigits(s, d + 1)
    IN  IF d > i /\ At(s, d) = "." /\ f > d + 1
        THEN Num(DigitsVal(s, i, d) * Pow10(f - d - 1) + DigitsVal(s, d + 1, f),
                 f - d - 1)
        ELSE Num(DigitsVal(s, i, d), 0)

Neg(n) == [n EXCEPT !.m = 0 - n.m]

(***************************************************************************)
(* JSON.parse                                                              *)
(***************************************************************************)
Fail == [ok |-> FALSE, v |-> Undefined, i |-> 0]
Ok(v, i) == [ok |-> TRUE, v |-> v, i |-> i]

\* A string literal that opens at s[i]: up to the next quote; a line break
\* inside it is a control character, which JSON refuses.
ParseString(s, i) ==
    IF \E j \in (i + 1)..Len(s) : s[j] = QT
    THEN LET j == CHOOSE j \in (i + 1)..Len(s) :
                      s[j] = QT /\ \A k \in (i + 1)..(j - 1) : s[k] # QT
         IN  IF \E k \in (i + 1)..(j - 1) : s[k] = NL
             THEN Fail
             ELSE Ok(Str(SubSeq(s, i + 1, j - 1)), j + 1)
    ELSE Fail

\* -? (0 | [1-9] digits) (. digits+)?
ParseNumber(s, i) ==
    LET a == IF At(s, i) = "-" THEN i + 1 ELSE i
        d == SkipDigits(s, a)
        f == SkipDigits(s, d + 1)
        n == DecimalVal(s, a)
        v == IF a > i THEN Neg(n) ELSE n
    IN  IF d = a THEN Fail
        ELSE IF At(s, a) = "0" /\ d > a + 1 THEN Fail
        ELSE IF At(s, d) = "." THEN (IF f > d + 1 THEN Ok(v, f) ELSE Fail)
        ELSE Ok(v, d)

RECURSIVE ParseValue(_, _), ParseMembers(_, _, _), ParseElements(_, _, _)

\* The value that starts at s[i] (white space already skipped).
ParseValue(s, i) ==
    LET a == At(s, i)
    IN  CASE a = "{" ->
               LET j == SkipWs(s, i + 1)
               IN  IF At(s, j) = "}" THEN Ok(Obj(<<>>), j + 1)
                   ELSE ParseMembers(s, j, <<>>)
          [] a = "[" ->
               LET j == SkipWs(s, i + 1)
               IN  IF At(s, j) = "]" THEN Ok(Arr(<<>>), j + 1)
                   ELSE ParseElements(s, j, <<>>)
          [] a = QT -> ParseString(s, i)
          [] a = "null" -> Ok(Null, i + 1)
          [] a = "true" -> Ok(Bool(TRUE), i + 1)
          [] a = "false" -> Ok(Bool(FALSE), i + 1)
          [] a = "-" \/ IsDigit(a) -> ParseNumber(s, i)
          [] OTHER -> Fail

\* The members of an object from the key at s[i] to the closing brace.
ParseMembers(s, i, acc) ==
    LET key == ParseString(s, i)
        c == SkipWs(s, key.i)
        val == ParseValue(s, SkipWs(s, c + 1))
        e == SkipWs(s, val.i)
        acc2 == ObjSet(acc, key.v.s, val.v)
    IN  IF At(s, i) # QT \/ ~key.ok THEN Fail
        ELSE IF At(s, c) # ":" THEN Fail
        ELSE IF ~val.ok THEN Fail
        ELSE IF At(s, e) = "," THEN ParseMembers(s, SkipWs(s, e + 1), acc2)
        ELSE IF At(s, e) = "}" THEN Ok(Obj(acc2), e + 1)
        ELSE Fail

\* The elements of an array from the element at s[i] to the closing bracket.
ParseElements(s, i, acc) ==
    LET val == ParseValue(s, i)
        e == SkipWs(s, val.i)
    IN  IF ~val.ok THEN Fail
        ELSE IF At(s, e) = "," THEN ParseElements(s, SkipWs(s, e + 1), Append(acc, val.v))
        ELSE IF At(s, e) = "]" THEN Ok(Arr(Append(acc, val.v)), e + 1)
        ELSE Fail

\* JSON.parse(text): the value, or SyntaxError when text is not one JSON
\* document with nothing but white space around it.
JSONParse(s) ==
    LET r == ParseValue(s, SkipWs(s, 1))
    IN  IF r.ok /\ SkipWs(s, r.i) = Len(s) + 1 THEN r.v ELSE SyntaxError

\* String(x) of the values that reach parseFloat here is the text itself.
\* parseFloat: leading white space, an optional sign, then the longest prefix
\* digits [. digits*] or . digits+; NaN when there is none.
parseFloat(s) ==
    LET w == SkipWs(s, 1)
        a == IF At(s, w) \in {"-", "+"} THEN w + 1 ELSE w
        d == SkipDigits(s, a)
        f == IF At(s, d) = "." THEN SkipDigits(s, d + 1) ELSE d
        n == IF f > d + 1
             THEN Num(DigitsVal(s, a, d) * Pow10(f - d - 1) + DigitsVal(s, d + 1, f),
                      f - d - 1)
             ELSE Num(DigitsVal(s, a, d), 0)
    IN  IF d = a /\ f <= d + 1 THEN NaN
        ELSE IF At(s, w) = "-" THEN Neg(n) ELSE n

(***************************************************************************)
(* The patterns of extractScore and parseResponseJSON                      *)
(***************************************************************************)
NoMatch == [found |-> FALSE, g1 |-> <<>>]
Match(g) == [found |-> TRUE, g1 |-> g]

\* FenceAt(s, i): the fence pattern /BTjson\s*([\s\S]*?)\s*BT/ (BT: three
\* backticks) matches at i: an opener with three backticks somewhere behind.
FenceAt(s, i) ==
    /\ s[i] = BT
    /\ At(s, i + 1) = "json"
    /\ \E j \in SkipWs(s, i + 2)..Len(s) : s[j] = BT

\* response.match(fence pattern): the leftmost match.  Group 1 runs from the
\* first atom behind the opener that is not white space to the last one
\* before the nearest three backticks, trailing white space dropped (the
\* group is lazy).  The opener of a later fence closes an earlier one.
matchFence(s) ==
    IF \E i \in 1..Len(s) : FenceAt(s, i)
    THEN LET i == CHOOSE i \in 1..Len(s) :
                      FenceAt(s, i) /\ \A h \in 1..(i - 1) : ~FenceAt(s, h)
             k == SkipWs(s, i + 2)
             j == CHOOSE j \in k..Len(s) :
                      s[j] = BT /\ \A h \in k..(j - 1) : s[h] # BT
             p == CHOOSE p \in (k - 1)..(j - 1) :
                      /\ \A h \in (p + 1)..(j - 1) : IsWs(s[h])
                      /\ (p = k - 1 \/ ~IsWs(s[p]))
         IN  Match(SubSeq(s, k, p))
    ELSE NoMatch

\* /"score"\s*:\s*"?(\d+(?:\.\d+)?)"?/ matches at i; the digits start at the
\* index returned (0: no match at i).
FieldDigitsAt(s, i) ==
    LET c == SkipWs(s, i + 3)
        k == SkipWs(s, c + 1)
        d == IF At(s, k) = QT THEN k + 1 ELSE k
    IN  IF /\ s[i] = QT /\ At(s, i + 1) = "score" /\ At(s, i + 2) = QT
           /\ At(s, c) = ":"
           /\ IsDigit(At(s, d))
        THEN d ELSE 0

\* /score:\s*(\d+(?:\.\d+)?)/i matches at i; as above.
LooseDigitsAt(s, i) ==
    LET k == SkipWs(s, i + 2)
    IN  IF LowerAtom(s[i]) = "score" /\ At(s, i + 1) = ":" /\ IsDigit(At(s, k))
        THEN k ELSE 0

\* response.match(patterns[0]): the leftmost match, group 1.
matchField(s) ==
    IF \E i \in 1..Len(s) : FieldDigitsAt(s, i) > 0
    THEN LET i == CHOOSE i \in 1..Len(s) :
                      FieldDigitsAt(s, i) > 0
                      /\ \A h \in 1..(i - 1) : FieldDigitsAt(s, h) = 0
             d == FieldDigitsAt(s, i)
         IN  Match(SubSeq(s, d, DecimalEnd(s, d) - 1))
    ELSE NoMatch

\* response.match(patterns[1]): the leftmost match, group 1.
matchLoose(s) ==
    IF \E i \in 1..Len(s) : LooseDigitsAt(s, i) > 0
    THEN LET i == CHOOSE i \in 1..Len(s) :
                      LooseDigitsAt(s, i) > 0
                      /\ \A h \in 1..(i - 1) : LooseDigitsAt(s, h) = 0
             d == LooseDigitsAt(s, i)
         IN  Match(SubSeq(s, d, DecimalEnd(s, d) - 1))
    ELSE NoMatch

OverallScoreKey == <<"overall_", "score">>
ScoreKey == <<"score">>

PassLiterals ==
    { <<QT, "overall_", "score", QT, ":", SP, QT, "pass", QT>>,
      <<QT, "overall_", "score", QT, ":", QT, "pass", QT>> }
FailLiterals ==
    { <<QT, "overall_", "score", QT, ":", SP, QT, "fail", QT>>,
      <<QT, "overall_", "score", QT, ":", QT, "fail", QT>> }

(***************************************************************************)
(* normalizeScoreValue, extractScore, parseResponseJSON                    *)
(***************************************************************************)
\* normalizeScoreValue with the numeric branch clamped to the 0..5 scale.
normalizeScoreValue_Clamped(v) ==
    IF v.t \in {"null", "undefined"} THEN Null
    ELSE IF v.t = "number"
    THEN (IF v.m < 0 THEN Num(0, 0)
          ELSE IF v.m > 5 * Pow10(v.e) THEN Num(5, 0)
          ELSE v)
    ELSE IF v.t = "string"
    THEN LET lower == toLowerCase(v.s)
             parsedFloat == parseFloat(v.s)
         IN  IF lower = <<"pass">> THEN PASS
             ELSE IF lower = <<"fail">> THEN FAIL
             ELSE IF parsedFloat # NaN THEN parsedFloat
             ELSE Null
    ELSE Null

normalizeScoreValue(v) ==
    IF v.t \in {"null", "undefined"} THEN Null
    ELSE IF v.t = "number" THEN v
    ELSE IF v.t = "string"
    THEN LET lower == toLowerCase(v.s)
             parsedFloat == parseFloat(v.s)
         IN  IF lower = <<"pass">> THEN PASS
             ELSE IF lower = <<"fail">> THEN FAIL
             ELSE IF parsedFloat # NaN THEN parsedFloat
             ELSE Null
    ELSE Null

NoReturn == [t |-> "noreturn"]

\* scoreOfParsed going on to the `score` key when overall_score normalizes
\* to null.
scoreOfParsed_SkipsUnknown(p) ==
    IF p = SyntaxError \/ p = Null THEN NoReturn
    ELSE IF Get(p, OverallScoreKey) # Undefined
            /\ normalizeScoreValue(Get(p, OverallScoreKey)) # Null
    THEN normalizeScoreValue(Get(p, OverallScoreKey))
    ELSE IF Get(p, ScoreKey) # Undefined
    THEN normalizeScoreValue(Get(p, ScoreKey))
    ELSE NoReturn

\* scoreOfParsed reading `score` before `overall_score`.
scoreOfParsed_ScoreFirst(p) ==
    IF p = SyntaxError \/ p = Null THEN NoReturn
    ELSE IF Get(p, ScoreKey) # Undefined
    THEN normalizeScoreValue(Get(p, ScoreKey))
    ELSE IF Get(p, OverallScoreKey) # Undefined
    THEN normalizeScoreValue(Get(p, OverallScoreKey))
    ELSE NoReturn

\* scoreOfParsed testing the keys for truthiness (if (parsed.overall_score))
\* instead of !== undefined.
scoreOfParsed_Truthy(p) ==
    IF p = SyntaxError \/ p = Null THEN NoReturn
    ELSE IF Truthy(Get(p, OverallScoreKey))
    THEN normalizeScoreValue(Get(p, OverallScoreKey))
    ELSE IF Truthy(Get(p, ScoreKey))
    THEN normalizeScoreValue(Get(p, ScoreKey))
    ELSE NoReturn

\* The body of one try block of extractScore, given what JSON.parse gave:
\* the value returned, or NoReturn when control leaves the block without a
\* return (JSON.parse threw, reading a property of null threw, or neither
\* key is there).
scoreOfParsed(p) ==
    IF p = SyntaxError \/ p = Null THEN NoReturn
    ELSE IF Get(p, OverallScoreKey) # Undefined
    THEN normalizeScoreValue(Get(p, OverallScoreKey))
    ELSE IF Get(p, ScoreKey) # Undefined
    THEN normalizeScoreValue(Get(p, ScoreKey))
    ELSE NoReturn

\* if (jsonMatch) { try { ... } catch (e) {} }
fencedScore(s) ==
    LET jsonMatch == matchFence(s)
    IN  IF jsonMatch.found THEN scoreOfParsed(JSONParse(jsonMatch.g1)) ELSE NoReturn

\* try { const parsed = JSON.parse(response); ... } catch (e) {}
directScore(s) == scoreOfParsed(JSONParse(s))

\* keywordScore without the toLowerCase call.
keywordScore_CaseSensitive(s) ==
    IF \E lit \in PassLiterals : includes(s, lit) THEN PASS
    ELSE IF \E lit \in FailLiterals : includes(s, lit) THEN FAIL
    ELSE NoReturn

\* The pass/fail keyword check.
keywordScore(s) ==
    LET lower == toLowerCase(s)
    IN  IF \E lit \in PassLiterals : includes(lower, lit) THEN PASS
        ELSE IF \E lit \in FailLiterals : includes(lower, lit) THEN FAIL
        ELSE NoReturn

\* patternScore with the two patterns in the other order.
patternScore_LooseFirst(s) ==
    IF matchLoose(s).found THEN parseFloat(matchLoose(s).g1)
    ELSE IF matchField(s).found THEN parseFloat(matchField(s).g1)
    ELSE NoReturn

\* for (const pattern of patterns) { ... return parseFloat(match[1]) }
patternScore(s) ==
    IF matchField(s).found THEN parseFloat(matchField(s).g1)
    ELSE IF matchLoose(s).found THEN parseFloat(matchLoose(s).g1)
    ELSE NoReturn

\* extractFromText that, like parseResponseJSON, parses the whole input only
\* when no fence is found.
extractFromText_FenceOrDirect(s) ==
    IF fencedScore(s) # NoReturn THEN fencedScore(s)
    ELSE IF ~matchFence(s).found /\ directScore(s) # NoReturn THEN directScore(s)
    ELSE IF keywordScore(s) # NoReturn THEN keywordScore(s)
    ELSE IF patternScore(s) # NoReturn THEN patternScore(s)
    ELSE Null

\* extractFromText ending in `return 0` instead of `return null`.
extractFromText_DefaultZero(s) ==
    IF fencedScore(s) # NoReturn THEN fencedScore(s)
    ELSE IF directScore(s) # NoReturn THEN directScore(s)
    ELSE IF keywordScore(s) # NoReturn THEN keywordScore(s)
    ELSE IF patternScore(s) # NoReturn THEN patternScore(s)
    ELSE Num(0, 0)

\* The strategies of extractScore on the atoms of a string, in order.
extractFromText(s) ==
    IF fencedScore(s) # NoReturn THEN fencedScore(s)
    ELSE IF directScore(s) # NoReturn THEN directScore(s)
    ELSE IF keywordScore(s) # NoReturn THEN keywordScore(s)
    ELSE IF patternScore(s) # NoReturn THEN patternScore(s)
    ELSE Null

\* extractScore(response): the score, or TypeError when the call throws
\* (response.match is not a function on a value that is no string).
extractScore(r) ==
    IF ~Truthy(r) THEN Null
    ELSE IF r.t # "string" THEN TypeError
    ELSE extractFromText(r.s)

\* parseResponseJSON with the catch block returning the text it failed on.
parseResponseJSON_KeepsText(r) ==
    IF ~Truthy(r) THEN Null
    ELSE IF r.t \in {"object", "array"} THEN r
    ELSE IF r.t # "string" THEN Null
    ELSE LET jsonMatch == matchFence(r.s)
             raw == IF jsonMatch.found THEN jsonMatch.g1 ELSE r.s
         IN  IF JSONParse(raw) = SyntaxError THEN Str(raw) ELSE JSONParse(raw)

\* parseResponseJSON without the pass-through of an object.
parseResponseJSON_StringsOnly(r) ==
    IF ~Truthy(r) THEN Null
    ELSE IF r.t # "string" THEN Null
    ELSE LET jsonMatch == matchFence(r.s)
             raw == IF jsonMatch.found THEN jsonMatch.g1 ELSE r.s
         IN  IF JSONParse(raw) = SyntaxError THEN Null ELSE JSONParse(raw)

parseResponseJSON(r) ==
    IF ~Truthy(r) THEN Null
    ELSE IF r.t \in {"object", "array"} THEN r
    ELSE IF r.t # "string" THEN Null
    ELSE LET jsonMatch == matchFence(r.s)
             raw == IF jsonMatch.found THEN jsonMatch.g1 ELSE r.s
         IN  IF JSONParse(raw) = SyntaxError THEN Null ELSE JSONParse(raw)

\* result ? (result.response || result) : null
responseOf(res) ==
    IF ~Truthy(res) THEN Null
    ELSE IF Truthy(Get(res, <<"response">>)) THEN Get(res, <<"response">>)
    ELSE res

(***************************************************************************)
(* Rendering helpers                                                       *)
(***************************************************************************)
\* div.textContent = text; div.innerHTML.replace(/\n/g, '<br>'): the HTML
\* serialisation of a text node escapes & < > and nothing else.
EscapeAtom(a) ==
    CASE a = "&" -> "&amp;"
      [] a = "<" -> "&lt;"
      [] a = ">" -> "&gt;"
      [] a = NL -> "<br>"
      [] OTHER -> a

escapeHtml(text) == [i \in 1..Len(text) |-> EscapeAtom(text[i])]

DigitAtom(d) ==
    CASE d = 0 -> "0" [] d = 1 -> "1" [] d = 2 -> "2" [] d = 3 -> "3"
      [] d = 4 -> "4" [] d = 5 -> "5" [] d = 6 -> "6" [] d = 7 -> "7"
      [] d = 8 -> "8" [] d = 9 -> "9"

\* The decimal digits of the natural number n, one atom per digit.
RECURSIVE Digits(_)
Digits(n) ==
    IF n < 10 THEN <<DigitAtom(n)>> ELSE Append(Digits(n \div 10), DigitAtom(n % 10))

\* The last e digits of n, with leading zeros.
RECURSIVE FractionDigits(_, _)
FractionDigits(n, e) ==
    IF e = 0 THEN <<>>
    ELSE Append(FractionDigits(n \div 10, e - 1), DigitAtom(n % 10))

Abs(m) == IF m < 0 THEN 0 - m ELSE m

\* Number.prototype.toString of m / 10^e (no exponent form at these sizes).
NumberToString(n) ==
    (IF n.m < 0 THEN <<"-">> ELSE <<>>)
    \o Digits(Abs(n.m) \div Pow10(n.e))
    \o (IF n.e > 0 THEN <<".">> \o FractionDigits(Abs(n.m) % Pow10(n.e), n.e) ELSE <<>>)

\* Number.prototype.toFixed(1): the tenths nearest to |x|, the larger one on
\* a tie, behind the sign of x.  The tie is decided on the decimal value.
toFixed1(n) ==
    LET tenths == (2 * 10 * Abs(n.m) + Pow10(n.e)) \div (2 * Pow10(n.e))
    IN  (IF n.m < 0 THEN <<"-">> ELSE <<>>)
        \o Digits(tenths \div 10) \o <<".", DigitAtom(tenths % 10)>>

\* String(v)
RECURSIVE StringOf(_), JoinElements(_, _)
StringOf(v) ==
    CASE v.t = "string" -> v.s
      [] v.t = "number" -> NumberToString(v)
      [] v.t = "boolean" -> IF v.b THEN <<"true">> ELSE <<"false">>
      [] v.t = "object" -> <<"[object Object]">>
      [] v.t = "array" -> JoinElements(v.a, 1)
      [] OTHER -> <<v.t>>

\* Array.prototype.join(','): null and undefined elements give ''.
JoinElements(a, i) ==
    IF i > Len(a) THEN <<>>
    ELSE (IF a[i].t \in {"null", "undefined"} THEN <<>> ELSE StringOf(a[i]))
         \o (IF i < Len(a) THEN <<",">> ELSE <<>>)
         \o JoinElements(a, i + 1)

\* A canonical array index: digits without a leading zero.
IsIndexKey(k) ==
    /\ Len(k) >= 1
    /\ \A i \in 1..Len(k) : IsDigit(k[i])
    /\ (Len(k) = 1 \/ k[1] # "0")

IndexVal(k) == DigitsVal(k, 1, Len(k) + 1)

\* The positions of kv in own-property order: the index keys in ascending
\* numeric order, then the other keys in insertion order.
RECURSIVE IndexKeysAscending(_, _)
IndexKeysAscending(kv, left) ==
    IF left = {} THEN <<>>
    ELSE LET i == CHOOSE i \in left :
                      \A j \in left : IndexVal(kv[i].k) <= IndexVal(kv[j].k)
         IN  <<i>> \o IndexKeysAscending(kv, left \ {i})

RECURSIVE OtherKeysInOrder(_, _)
OtherKeysInOrder(kv, i) ==
    IF i > Len(kv) THEN <<>>
    ELSE (IF IsIndexKey(kv[i].k) THEN <<>> ELSE <<i>>) \o OtherKeysInOrder(kv, i + 1)

PropertyOrder(kv) ==
    IndexKeysAscending(kv, { i \in 1..Len(kv) : IsIndexKey(kv[i].k) })
    \o OtherKeysInOrder(kv, 1)

\* Object.entries(data): the own enumerable properties in property order;
\* index and element for an array, index and character for a string (here
\* one entry per atom), nothing for a number or a boolean.
entries(data) ==
    CASE data.t = "object" ->
           LET order == PropertyOrder(data.kv)
           IN  [i \in 1..Len(order) |-> data.kv[order[i]]]
      [] data.t = "array" ->
           [i \in 1..Len(data.a) |-> [k |-> Digits(i - 1), v |-> data.a[i]]]
      [] data.t = "string" ->
           [i \in 1..Len(data.s) |-> [k |-> Digits(i - 1), v |-> Str(<<data.s[i]>>)]]
      [] OTHER -> <<>>

ReservedKeys ==
    { OverallScoreKey, <<"overall_", "pass">>, <<"summary">>, <<"flags">> }

\* The filters of metricRows without the reserved keys.
IsMetricEntry_AnyKey(entry) ==
    /\ Truthy(entry.v)
    /\ entry.v.t = "object"
    /\ Get(entry.v, ScoreKey) # Undefined

\* The two filters of metricRows.
IsMetricEntry(entry) ==
    /\ entry.k \notin ReservedKeys
    /\ Truthy(entry.v)
    /\ entry.v.t = "object"
    /\ Get(entry.v, ScoreKey) # Undefined

metricRows(data) ==
    LET kept == SelectSeq(entries(data), IsMetricEntry)
    IN  [i \in 1..Len(kept) |->
            [key |-> kept[i].k,
             score |-> normalizeScoreValue(Get(kept[i].v, ScoreKey)),
             reasoning |-> IF Truthy(Get(kept[i].v, <<"reasoning">>))
                           THEN escapeHtml(StringOf(Get(kept[i].v, <<"reasoning">>)))
                           ELSE <<>>]]

\* renderEvaluationView with overall_pass coerced to a boolean when present.
renderEvaluationView_CoercedPass(data, rawResponse) ==
    LET overall_pass == Get(data, <<"overall_", "pass">>)
        summary == Get(data, <<"summary">>)
        flags == Get(data, <<"flags">>)
        shownFlags == IF flags.t = "array" THEN flags.a ELSE <<>>
    IN  [kind |-> "evaluation-view",
         overallPass |-> IF overall_pass = Undefined THEN Null
                         ELSE Bool(Truthy(overall_pass)),
         summary |-> IF Truthy(summary) THEN escapeHtml(StringOf(summary)) ELSE <<>>,
         flags |-> [i \in 1..Len(shownFlags) |-> escapeHtml(StringOf(shownFlags[i]))],
         metricRows |-> metricRows(data),
         raw |-> IF Truthy(rawResponse) THEN escapeHtml(StringOf(rawResponse)) ELSE <<>>]

\* renderEvaluationView(data, rawResponse): the parts of the returned markup.
\* No metric of the inputs carries misclassified_runs or fake_passes_detected,
\* so renderMetricExtras returns '' and is left out of a row.
renderEvaluationView(data, rawResponse) ==
    LET overall_pass == Get(data, <<"overall_", "pass">>)
        summary == Get(data, <<"summary">>)
        flags == Get(data, <<"flags">>)
        shownFlags == IF flags.t = "array" THEN flags.a ELSE <<>>
    IN  [kind |-> "evaluation-view",
         overallPass |-> IF overall_pass.t = "boolean" THEN overall_pass ELSE Null,
         summary |-> IF Truthy(summary) THEN escapeHtml(StringOf(summary)) ELSE <<>>,
         flags |-> [i \in 1..Len(shownFlags) |-> escapeHtml(StringOf(shownFlags[i]))],
         metricRows |-> metricRows(data),
         raw |-> IF Truthy(rawResponse) THEN escapeHtml(StringOf(rawResponse)) ELSE <<>>]

\* <div class="dimension-response">${escapeHtml(String(response || ''))}</div>
renderRawResponse(r) ==
    [kind |-> "dimension-response",
     raw |-> escapeHtml(IF Truthy(r) THEN StringOf(r) ELSE <<>>)]

(***************************************************************************)
(* Presentation of a score                                                 *)
(***************************************************************************)
CheckMark == "U+2713"    \* the check mark of '✓ PASS' (one character)
BallotX == "U+2717"      \* the ballot x of '✗ FAIL' (one character)

\* a <= b for two numbers
NumLeq(a, b) == a.m * Pow10(b.e) <= b.m * Pow10(a.e)

\* Math.max(0, Math.min(5, score))
clamped(s) ==
    IF NumLeq(s, Num(0, 0)) THEN Num(0, 0)
    ELSE IF NumLeq(Num(5, 0), s) THEN Num(5, 0)
    ELSE s

\* (clamped / 5) * 120, as the exact decimal: 24 * clamped.  The double the
\* engine computes is the nearest to it and can differ in the last digit it
\* prints; 0 and 120 are exact.
hue(s) == Num(24 * clamped(s).m, clamped(s).e)

getScoreClass(s) ==
    IF s = Null THEN "score-na"
    ELSE IF s = PASS THEN "score-pass"
    ELSE IF s = FAIL THEN "score-fail"
    ELSE IF s.t \in {"number", "NaN"} THEN "score-gradient"
    ELSE "score-na"

\* getScoreStyle with a color for the verdicts too: green for PASS, red for FAIL.
getScoreStyle_VerdictColored(s) ==
    IF s.t # "number" /\ s \notin {PASS, FAIL} THEN <<>>
    ELSE <<"style=", QT, "--score-color:", SP, "hsl(">>
         \o (IF s = PASS THEN <<"1", "2", "0">>
             ELSE IF s = FAIL THEN <<"0">>
             ELSE NumberToString(hue(s)))
         \o <<",", SP, "70%", ",", SP, "50%", ")", QT>>

getScoreStyle(s) ==
    IF s.t # "number" THEN <<>>
    ELSE <<"style=", QT, "--score-color:", SP, "hsl(">> \o NumberToString(hue(s))
         \o <<",", SP, "70%", ",", SP, "50%", ")", QT>>

\* formatScore with the label taken from the clamped score.
formatScore_Clamped(s) ==
    IF s = Null THEN <<"N/A">>
    ELSE IF s = PASS THEN <<CheckMark, SP, "PASS">>
    ELSE IF s = FAIL THEN <<BallotX, SP, "FAIL">>
    ELSE IF s.t = "number" THEN toFixed1(clamped(s))
    ELSE IF s.t = "NaN" THEN <<"NaN">>
    ELSE IF s.t = "string" THEN s.s
    ELSE <<s.t>>

formatScore(s) ==
    IF s = Null THEN <<"N/A">>
    ELSE IF s = PASS THEN <<CheckMark, SP, "PASS">>
    ELSE IF s = FAIL THEN <<BallotX, SP, "FAIL">>
    ELSE IF s.t = "number" THEN toFixed1(s)
    ELSE IF s.t = "NaN" THEN <<"NaN">>
    ELSE IF s.t = "string" THEN s.s
    ELSE <<s.t>>

(***************************************************************************)
(* Inputs                                                                  *)
(***************************************************************************)
MaxParts == 2        \* a response text is at most this many segments
MaxValueLen == 3     \* a string score value is at most this many atoms
MaxTenths == 80      \* numeric score values range over -8.0 .. 8.0 in tenths

\* {"overall_score": 4.2, "score": "FAIL"}
DocBoth ==
    <<"{", QT, "overall_", "score", QT, ":", SP, "4", ".", "2", ",", SP,
      QT, "score", QT, ":", SP, QT, "FAIL", QT, "}">>
\* {"score": "Pass"}
DocScoreOnly == <<"{", QT, "score", QT, ":", SP, QT, "Pass", QT, "}">>
\* {"overall_score": }
DocBroken == <<"{", QT, "overall_", "score", QT, ":", SP, "}">>
\* {"accuracy": {"score": 4}}
DocMetric ==
    <<"{", QT, "accuracy", QT, ":", SP, "{", QT, "score", QT, ":", SP, "4", "}", "}">>
\* {"overall_score": null, "score": 3}
DocNullOverall ==
    <<"{", QT, "overall_", "score", QT, ":", SP, "null", ",", SP,
      QT, "score", QT, ":", SP, "3", "}">>
\* {"overall_score": "n/a", "score": 3}
DocUnknownOverall ==
    <<"{", QT, "overall_", "score", QT, ":", SP, QT, "n/a", QT, ",", SP,
      QT, "score", QT, ":", SP, "3", "}">>
\* {"overall_score": 3, "summary": "see BTjsonBT"}: a document whose summary
\* quotes an empty fence
DocQuotesFence ==
    <<"{", QT, "overall_", "score", QT, ":", SP, "3", ",", SP,
      QT, "summary", QT, ":", SP, QT, "see", SP, BT, "json", BT, QT, "}">>
\* {"score": 2, "note": "BTjson 7 BT"}: a document whose note quotes a fence
\* that holds the JSON number 7
DocQuotesNumber ==
    <<"{", QT, "score", QT, ":", SP, "2", ",", SP,
      QT, "note", QT, ":", SP, QT, BT, "json", SP, "7", SP, BT, QT, "}">>

Docs ==
    { DocBoth, DocScoreOnly, DocBroken, DocMetric, DocNullOverall,
      DocQuotesFence, DocQuotesNumber }

FenceOpen == <<BT, "json", NL>>
FenceClose == <<NL, BT>>
Fenced(doc) == FenceOpen \o doc \o FenceClose

\* "overall_score": "PASS"
ProsePass == <<QT, "overall_", "score", QT, ":", SP, QT, "PASS", QT>>
\* "Overall_Score":"Fail"
ProseFail == <<QT, "Overall_", "Score", QT, ":", QT, "Fail", QT>>
\* Score: 3.5 out of 5
ProseLoose == <<"Score", ":", SP, "3", ".", "5", SP, "out", SP, "of", SP, "5">>
\* "score": "2"
ProseField == <<QT, "score", QT, ":", SP, QT, "2", QT>>
\* Good work
ProsePlain == <<"Good", SP, "work">>

Prose == { ProsePass, ProseFail, ProseLoose, ProseField, ProsePlain }

Segments ==
    Docs \cup { Fenced(d) : d \in Docs } \cup Prose
    \cup { FenceOpen, FenceClose, DocUnknownOverall }

RECURSIVE Flatten(_)
Flatten(parts) ==
    IF parts = <<>> THEN <<>> ELSE Head(parts) \o Flatten(Tail(parts))

SeqsUpTo(S, n) == UNION { [1..k -> S] : k \in 0..n }

Texts == { Flatten(parts) : parts \in SeqsUpTo(Segments, MaxParts) }

\* Already-structured dimension results, without a response field.
StructuredResults == { JSONParse(DocBoth), JSONParse(DocMetric) }

\* results[name]: missing, {response: text}, or an already-structured object.
Results ==
    {Undefined}
    \cup { Obj(<<[k |-> <<"response">>, v |-> Str(t)]>>) : t \in Texts }
    \cup StructuredResults

ValueAtoms == {"3", "7", ".", "-", SP, "abc", "out", "pass", "PASS", "Fail"}

Values ==
    {Undefined, Null, Bool(TRUE), Obj(<<>>)}
    \cup { Num(m, 1) : m \in (0 - MaxTenths)..MaxTenths }
    \cup { Str(s) : s \in SeqsUpTo(ValueAtoms, MaxValueLen) }

(***************************************************************************)
(* Evaluation documents for renderEvaluationView                           *)
(***************************************************************************)
MaxEntries == 2      \* an evaluation document has at most this many members

EntryKeys ==
    { <<"overall_", "pass">>, <<"flags">>, <<"accuracy">>, <<"tool_", "use">>, <<"1">> }

\* true, false, "true", 1, ["minor_issue"], {"score": 4}, {"reasoning": "ok"}
EntryValues ==
    { Bool(TRUE), Bool(FALSE), Str(<<"true">>), Num(1, 0),
      Arr(<<Str(<<"minor_", "issue">>)>>),
      Obj(<<[k |-> ScoreKey, v |-> Num(4, 0)]>>),
      Obj(<<[k |-> <<"reasoning">>, v |-> Str(<<"ok">>)]>>) }

\* The JSON text of a value, members in the order given.
RECURSIVE Stringify(_), StringifyMembers(_, _), StringifyElements(_, _)
Stringify(v) ==
    CASE v.t = "string" -> <<QT>> \o v.s \o <<QT>>
      [] v.t = "number" -> NumberToString(v)
      [] v.t = "boolean" -> IF v.b THEN <<"true">> ELSE <<"false">>
      [] v.t = "object" -> <<"{">> \o StringifyMembers(v.kv, 1) \o <<"}">>
      [] v.t = "array" -> <<"[">> \o StringifyElements(v.a, 1) \o <<"]">>
      [] OTHER -> <<"null">>

StringifyMembers(kv, i) ==
    IF i > Len(kv) THEN <<>>
    ELSE <<QT>> \o kv[i].k \o <<QT, ":", SP>> \o Stringify(kv[i].v)
         \o (IF i < Len(kv) THEN <<",", SP>> ELSE <<>>)
         \o StringifyMembers(kv, i + 1)

StringifyElements(a, i) ==
    IF i > Len(a) THEN <<>>
    ELSE Stringify(a[i])
         \o (IF i < Len(a) THEN <<",", SP>> ELSE <<>>)
         \o StringifyElements(a, i + 1)

\* The members of a document, in the order they are written; a key may repeat.
Members ==
    SeqsUpTo({ [k |-> key, v |-> val] : key \in EntryKeys, val \in EntryValues },
             MaxEntries)

\* Response texts: an object document, or a bare value.
ViewTexts ==
    { Stringify(Obj(kv)) : kv \in Members } \cup { Stringify(v) : v \in EntryValues }

ViewResults == { Obj(<<[k |-> <<"response">>, v |-> Str(t)]>>) : t \in ViewTexts }

(***************************************************************************)
(* Decoding one dimension's response                                       *)
(***************************************************************************)
Init ==
    /\ result \in Results
    /\ response = responseOf(result)
    /\ score = Pending
    /\ parsed = Pending
    /\ overallScore = Pending
    /\ content = Pending
    /\ value = Undefined
    /\ normalized = Pending
    /\ shown = Pending
    /\ results = Undefined
    /\ cards = Pending
    /\ csv = Pending
    /\ PageIdle

\* const score = extractScore(response)
ExtractScore ==
    /\ score = Pending
    /\ score' = extractScore(response)
    /\ UNCHANGED <<result, response, parsed, overallScore, content>>
    /\ UNCHANGED <<normalizeVars, summaryVars>>
    /\ UNCHANGED pageVars

\* const parsed = parseResponseJSON(response)
ParseResponseJSON ==
    /\ parsed = Pending
    /\ parsed' = parseResponseJSON(response)
    /\ UNCHANGED <<result, response, score, overallScore, content>>
    /\ UNCHANGED <<normalizeVars, summaryVars>>
    /\ UNCHANGED pageVars

\* parsed ? renderEvaluationView(parsed, response) : raw text
RenderEvaluationView ==
    /\ parsed # Pending
    /\ Truthy(parsed)
    /\ overallScore = Pending
    /\ overallScore' = normalizeScoreValue(Get(parsed, OverallScoreKey))
    /\ content' = renderEvaluationView(parsed, response)
    /\ UNCHANGED <<result, response, score, parsed>>
    /\ UNCHANGED <<normalizeVars, summaryVars>>
    /\ UNCHANGED pageVars

\* parsed is null (or another falsy decode): the raw response text
RenderRawResponse ==
    /\ parsed # Pending
    /\ ~Truthy(parsed)
    /\ content = Pending
    /\ content' = renderRawResponse(response)
    /\ UNCHANGED <<result, response, score, parsed, overallScore>>
    /\ UNCHANGED <<normalizeVars, summaryVars>>
    /\ UNCHANGED pageVars

Next == ExtractScore \/ ParseResponseJSON \/ RenderEvaluationView \/ RenderRawResponse

Spec == Init /\ [][Next]_vars

(***************************************************************************)
(* The dimension card of an evaluation document                            *)
(***************************************************************************)
InitView ==
    /\ result \in ViewResults
    /\ response = responseOf(result)
    /\ score = Pending
    /\ parsed = Pending
    /\ overallScore = Pending
    /\ content = Pending
    /\ value = Undefined
    /\ normalized = Pending
    /\ shown = Pending
    /\ results = Undefined
    /\ cards = Pending
    /\ csv = Pending
    /\ PageIdle

\* The card's content; the headline score of the same text is decoded under Spec.
NextView == ParseResponseJSON \/ RenderEvaluationView \/ RenderRawResponse

SpecView == InitView /\ [][NextView]_vars

(***************************************************************************)
(* normalizeScoreValue on its own                                          *)
(***************************************************************************)
InitNormalize ==
    /\ value \in Values
    /\ normalized = Pending
    /\ result = Undefined
    /\ response = Null
    /\ score = Pending
    /\ parsed = Pending
    /\ overallScore = Pending
    /\ content = Pending
    /\ shown = Pending
    /\ results = Undefined
    /\ cards = Pending
    /\ csv = Pending
    /\ PageIdle

NormalizeScoreValue ==
    /\ normalized = Pending
    /\ normalized' = normalizeScoreValue(value)
    /\ UNCHANGED <<decodeVars, summaryVars, value, shown>>
    /\ UNCHANGED pageVars

\* renderEvaluationView: overallClass, overallStyle and the label of
\* overallScore = normalizeScoreValue(data.overall_score)
PresentScore ==
    /\ normalized # Pending
    /\ shown = Pending
    /\ shown' = [class |-> getScoreClass(normalized),
                 style |-> getScoreStyle(normalized),
                 label |-> formatScore(normalized)]
    /\ UNCHANGED <<decodeVars, summaryVars, value, normalized>>
    /\ UNCHANGED pageVars

NextNormalize == NormalizeScoreValue \/ PresentScore

SpecNormalize == InitNormalize /\ [][NextNormalize]_vars

(***************************************************************************)
(* The score summary and the CSV export                                    *)
(***************************************************************************)
DIMENSION_ORDER ==
    << "Prompt Quality", "Manual Tool Execution (Happy Path)",
       "SQL Verifier Quality", "Model Benchmarking Analysis" >>

DIMENSION_SHORT_NAMES(name) ==
    CASE name = "Prompt Quality" -> "Prompt"
      [] name = "Manual Tool Execution (Happy Path)" -> "Happy Path"
      [] name = "SQL Verifier Quality" -> "SQL Verifier"
      [] name = "Model Benchmarking Analysis" -> "Benchmarking"

\* extractScore(response) of every dimension, in DIMENSION_ORDER.
summaryScores(rs) ==
    [i \in 1..Len(DIMENSION_ORDER) |->
        extractScore(responseOf(Get(rs, <<DIMENSION_ORDER[i]>>)))]

\* One score card of renderScoreSummary.
scoreCard(s, name) ==
    [scoreClass |-> getScoreClass(s),
     scoreStyle |-> getScoreStyle(s),
     label |-> formatScore(s),
     shortName |-> DIMENSION_SHORT_NAMES(name)]

\* The cards written into the summary, or the TypeError of the first
\* extractScore call that throws (scoreSummary.innerHTML is not assigned).
scoreCards(scores) ==
    IF \E i \in 1..Len(DIMENSION_ORDER) : scores[i] = TypeError
    THEN TypeError
    ELSE [t |-> "cards",
          list |-> [i \in 1..Len(DIMENSION_ORDER) |->
                       scoreCard(scores[i], DIMENSION_ORDER[i])]]

renderScoreSummary(rs) == scoreCards(summaryScores(rs))

\* result?.response || result || ''
csvResponseOf(res) ==
    IF res.t \notin {"null", "undefined"} /\ Truthy(Get(res, <<"response">>))
    THEN Get(res, <<"response">>)
    ELSE IF Truthy(res) THEN res
    ELSE Str(<<>>)

\* extractScore(result?.response || result || '') of every dimension.
csvScores(rs) ==
    [i \in 1..Len(DIMENSION_ORDER) |->
        extractScore(csvResponseOf(Get(rs, <<DIMENSION_ORDER[i]>>)))]

\* csvCell with a number written as it is, not through formatScore.
csvCell_Unformatted(s) ==
    IF s.t = "number" THEN NumberToString(s) ELSE formatScore(s)

\* The cell of one dimension in the CSV row: return formatScore(score).
csvCell(s) == formatScore(s)

\* The score cells of the row, or the TypeError of the first extractScore
\* call that throws (no file is written).
csvRow(scores) ==
    IF \E i \in 1..Len(DIMENSION_ORDER) : scores[i] = TypeError
    THEN TypeError
    ELSE [t |-> "csv",
          scores |-> [i \in 1..Len(DIMENSION_ORDER) |-> csvCell(scores[i])]]

\* {"overall_score": 7}
DocSeven == <<"{", QT, "overall_", "score", QT, ":", SP, "7", "}">>

ResponseOnly(t) == Obj(<<[k |-> <<"response">>, v |-> Str(t)]>>)

\* What evaluation_results holds for one dimension: nothing, a response text,
\* an empty response, or an object without a response field.
SummaryResults ==
    { Undefined, ResponseOnly(<<>>), ResponseOnly(ProsePass),
      ResponseOnly(DocSeven), ResponseOnly(ProsePlain), Obj(<<>>) }

\* evaluation_results: a missing dimension has no key.
RECURSIVE ResultsObject(_, _)
ResultsObject(f, i) ==
    IF i > Len(DIMENSION_ORDER) THEN <<>>
    ELSE (IF f[i] = Undefined THEN <<>>
          ELSE <<[k |-> <<DIMENSION_ORDER[i]>>, v |-> f[i]]>>)
         \o ResultsObject(f, i + 1)

SummaryMaps ==
    { Obj(ResultsObject(f, 1)) : f \in [1..Len(DIMENSION_ORDER) -> SummaryResults] }

InitSummary ==
    /\ results \in SummaryMaps
    /\ cards = Pending
    /\ csv = Pending
    /\ result = Undefined
    /\ response = Null
    /\ score = Pending
    /\ parsed = Pending
    /\ overallScore = Pending
    /\ content = Pending
    /\ value = Undefined
    /\ normalized = Pending
    /\ shown = Pending
    /\ PageIdle

\* displayResults: renderScoreSummary(data.evaluation_results || {})
RenderScoreSummary ==
    /\ cards = Pending
    /\ \E scores \in {summaryScores(results)} : cards' = scoreCards(scores)
    /\ UNCHANGED <<decodeVars, normalizeVars, results, csv>>
    /\ UNCHANGED pageVars

\* A click on Download CSV; the button is in the results section, which
\* displayResults shows before it renders the summary.
HandleDownloadCsv ==
    /\ cards # Pending
    /\ csv = Pending
    /\ \E scores \in {csvScores(results)} : csv' = csvRow(scores)
    /\ UNCHANGED <<decodeVars, normalizeVars, results, cards>>
    /\ UNCHANGED pageVars

NextSummary == RenderScoreSummary \/ HandleDownloadCsv

SpecSummary == InitSummary /\ [][NextSummary]_vars

(***************************************************************************)
(* Properties of extractScore and parseResponseJSON (under Spec)           *)
(***************************************************************************)
\* extractScore has returned for a string response.
TextScored == response.t = "string" /\ score # Pending

\* What JSON.parse gives on group 1 of the fence (SyntaxError without one).
FenceDecode(s) ==
    IF matchFence(s).found THEN JSONParse(matchFence(s).g1) ELSE SyntaxError

HasScoreKey(p) == HasKey(p, OverallScoreKey) \/ HasKey(p, ScoreKey)

\* The key lookup of the specification: overall_score, then score.
KeyedScore(p) ==
    IF HasKey(p, OverallScoreKey)
    THEN normalizeScoreValue(Get(p, OverallScoreKey))
    ELSE normalizeScoreValue(Get(p, ScoreKey))

\* Strategy 1 yields nothing: no fence, or its contents do not parse, or the
\* parsed value has neither key.
Strategy1Nothing(s) == ~HasScoreKey(FenceDecode(s))
\* Strategy 2 yields nothing.
Strategy2Nothing(s) == ~HasScoreKey(JSONParse(s))
JsonNothing(s) == Strategy1Nothing(s) /\ Strategy2Nothing(s)

\* lit occurs in s when letter case is ignored.
AnyCaseIncludes(s, lit) ==
    \E i \in 1..(Len(s) - Len(lit) + 1) :
        \A k \in 1..Len(lit) : LowerAtom(s[i + k - 1]) = lit[k]
HasPassLiteral(s) == \E lit \in PassLiterals : AnyCaseIncludes(s, lit)
HasFailLiteral(s) == \E lit \in FailLiterals : AnyCaseIncludes(s, lit)

\* C1: extractScore never raises: for null, any string and an
\* already-structured object it returns a canonical score.
C1_NeverRaises == score # TypeError

\* C2: when the fence is found but its contents fail to parse,
\* parseResponseJSON parses the whole string and returns that decode if it
\* succeeds.
C2_FenceFailureFallsBackToWholeString ==
    ( /\ parsed # Pending
      /\ response.t = "string"
      /\ matchFence(response.s).found
      /\ FenceDecode(response.s) = SyntaxError
      /\ JSONParse(response.s) # SyntaxError )
    => parsed = JSONParse(response.s)

\* C3: whenever strategy 1 of extractScore yields nothing, the whole input is
\* parsed as JSON and the key lookup (overall_score, then score) on it gives
\* the result, before any text pattern is tried.
C3_WholeInputParsedWhenFenceYieldsNothing ==
    ( /\ TextScored
      /\ Strategy1Nothing(response.s)
      /\ HasScoreKey(JSONParse(response.s)) )
    => score = KeyedScore(JSONParse(response.s))

\* C3 witness: a fence whose contents do not parse, inside a text that is
\* itself a JSON document with a score key, decoded to that key's number.
C3_Witness ==
    /\ TextScored
    /\ matchFence(response.s).found
    /\ FenceDecode(response.s) = SyntaxError
    /\ HasScoreKey(JSONParse(response.s))
    /\ score.t = "number"
    /\ score = KeyedScore(JSONParse(response.s))

\* C4: a parsed JSON value (of the fence, or of the whole input) that has key
\* overall_score gives normalizeScoreValue(overall_score), whatever its score
\* key holds; score is used only when overall_score is not present.
C4_OverallScoreBeforeScore ==
    TextScored =>
        LET pf == FenceDecode(response.s)
            pw == JSONParse(response.s)
        IN  /\ HasKey(pf, OverallScoreKey)
                => score = normalizeScoreValue(Get(pf, OverallScoreKey))
            /\ (~HasKey(pf, OverallScoreKey) /\ HasKey(pf, ScoreKey))
                => score = normalizeScoreValue(Get(pf, ScoreKey))
            /\ (Strategy1Nothing(response.s) /\ HasKey(pw, OverallScoreKey))
                => score = normalizeScoreValue(Get(pw, OverallScoreKey))
            /\ (Strategy1Nothing(response.s) /\ ~HasKey(pw, OverallScoreKey)
                    /\ HasKey(pw, ScoreKey))
                => score = normalizeScoreValue(Get(pw, ScoreKey))

\* C4 witness: the fenced value has both keys, they normalize differently,
\* and the result is the one of overall_score.
C4_Witness ==
    /\ TextScored
    /\ HasKey(FenceDecode(response.s), OverallScoreKey)
    /\ HasKey(FenceDecode(response.s), ScoreKey)
    /\ normalizeScoreValue(Get(FenceDecode(response.s), OverallScoreKey))
         # normalizeScoreValue(Get(FenceDecode(response.s), ScoreKey))
    /\ score = normalizeScoreValue(Get(FenceDecode(response.s), OverallScoreKey))

\* C5 as stated: when the JSON strategies yield nothing, a pass literal in any
\* letter case gives 'PASS' and a fail literal gives 'FAIL', whatever the
\* numeric patterns would match.
C5_Original ==
    (TextScored /\ JsonNothing(response.s)) =>
        /\ HasPassLiteral(response.s) => score = PASS
        /\ HasFailLiteral(response.s) => score = FAIL

\* C5 amended: when the JSON strategies yield nothing, a pass literal in any
\* letter case gives 'PASS'; a fail literal gives 'FAIL' when the text holds
\* no pass literal (pass is looked for first); both take precedence over the
\* numeric patterns.
C5_KeywordBeforePatterns ==
    (TextScored /\ JsonNothing(response.s)) =>
        /\ HasPassLiteral(response.s) => score = PASS
        /\ (HasFailLiteral(response.s) /\ ~HasPassLiteral(response.s))
            => score = FAIL

\* C5 witness: a mixed-case fail literal decides the score of a text on which
\* a numeric pattern matches too.
C5_Witness ==
    /\ TextScored
    /\ JsonNothing(response.s)
    /\ HasFailLiteral(response.s)
    /\ ~\E lit \in FailLiterals : includes(response.s, lit)
    /\ matchLoose(response.s).found
    /\ score = FAIL

\* C6: when strategies 1-3 yield nothing, the "score": <number> field pattern
\* is tried before the loose score: <number> phrase and the number captured
\* by the first pattern that matches is the result; Score: 3.5 out of 5
\* gives 3.5.
C6_FieldPatternBeforeLoosePattern ==
    /\ ( /\ TextScored
         /\ JsonNothing(response.s)
         /\ ~HasPassLiteral(response.s)
         /\ ~HasFailLiteral(response.s) )
       => /\ matchField(response.s).found
              => score = DecimalVal(matchField(response.s).g1, 1)
          /\ (~matchField(response.s).found /\ matchLoose(response.s).found)
              => score = DecimalVal(matchLoose(response.s).g1, 1)
    /\ (score # Pending /\ response = Str(ProseLoose)) => score = Num(35, 1)

\* C6 witness: the loose phrase comes first in the text with another number,
\* and the field pattern's number is the result.
C6_Witness ==
    /\ TextScored
    /\ response.s = ProseLoose \o ProseField
    /\ matchLoose(response.s).found
    /\ matchField(response.s).found
    /\ DecimalVal(matchLoose(response.s).g1, 1) # DecimalVal(matchField(response.s).g1, 1)
    /\ score = DecimalVal(matchField(response.s).g1, 1)

\* All four strategies of extractScore fail on s.
AllStrategiesFail(s) ==
    /\ JsonNothing(s)
    /\ ~HasPassLiteral(s)
    /\ ~HasFailLiteral(s)
    /\ ~matchField(s).found
    /\ ~matchLoose(s).found

\* C7: extractScore returns Unknown (null) for every string on which all four
\* strategies fail, the fence around {"overall_score": } included.
C7_ExhaustedGivesUnknown ==
    /\ (TextScored /\ AllStrategiesFail(response.s)) => score = Null
    /\ (score # Pending /\ response = Str(Fenced(DocBroken))) => score = Null

\* C7 witness: the malformed fenced document has been decoded to null.
C7_Witness ==
    /\ TextScored
    /\ response.s = Fenced(DocBroken)
    /\ matchFence(response.s).found
    /\ AllStrategiesFail(response.s)
    /\ score = Null

\* C10 as stated: for every string input with a structured decode, the
\* headline score of extractScore equals the decode's overall score.
C10_Original ==
    (TextScored /\ overallScore # Pending) => score = overallScore

\* C10 amended: for every string input whose structured decode has key
\* overall_score, the headline score of extractScore equals the decode's
\* overall score, normalizeScoreValue(overall_score).
C10_HeadlineEqualsOverallWhenKeyed ==
    (TextScored /\ overallScore # Pending /\ HasKey(parsed, OverallScoreKey))
        => score = overallScore

\* C10 witness: a decode with a numeric overall_score, shown alike in both
\* places.
C10_Witness ==
    /\ TextScored
    /\ overallScore # Pending
    /\ HasKey(parsed, OverallScoreKey)
    /\ score.t = "number"
    /\ score = overallScore

(***************************************************************************)
(* Properties of normalizeScoreValue (under SpecNormalize)                 *)
(***************************************************************************)
\* C8: null or absent gives null; a number is returned unchanged, also
\* outside 0..5; "pass" and "fail" in any letter case give 'PASS' and 'FAIL'.
C8_NormalizeRules ==
    normalized # Pending =>
        /\ value \in {Null, Undefined} => normalized = Null
        /\ value.t = "number" => normalized = value
        /\ (value.t = "string" /\ Len(value.s) = 1 /\ LowerAtom(value.s[1]) = "pass")
            => normalized = PASS
        /\ (value.t = "string" /\ Len(value.s) = 1 /\ LowerAtom(value.s[1]) = "fail")
            => normalized = FAIL

\* C8 witness: a number above 5 has been returned as it is.
C8_Witness ==
    /\ normalized # Pending
    /\ value.t = "number"
    /\ value.m > 5 * Pow10(value.e)
    /\ normalized = value

\* The whole of s is one number: an optional sign, digits and an optional
\* fraction, with nothing but white space around it.
WholeNumber(s) ==
    LET a == SkipWs(s, 1)
        b == IF At(s, a) \in {"-", "+"} THEN a + 1 ELSE a
        d == SkipDigits(s, b)
        f == IF At(s, d) = "." THEN SkipDigits(s, d + 1) ELSE d
    IN  /\ (d > b \/ f > d + 1)
        /\ SkipWs(s, f) = Len(s) + 1

\* C9: a string that is neither pass nor fail and is not entirely a number
\* (a number followed by other text, say) gives Unknown (null).
C9_MalformedNumberGivesUnknown ==
    ( /\ normalized # Pending
      /\ value.t = "string"
      /\ toLowerCase(value.s) \notin {<<"pass">>, <<"fail">>}
      /\ ~WholeNumber(value.s) )
    => normalized = Null
(***************************************************************************)
(* Claims about parseResponseJSON and the card content                     *)
(***************************************************************************)
\* Neither the fenced block (when there is one) nor the whole string is JSON.
ParseAttemptsFail(s) ==
    /\ JSONParse(s) = SyntaxError
    /\ matchFence(s).found => JSONParse(matchFence(s).g1) = SyntaxError

\* C11: when every parse attempt fails on a string, parseResponseJSON returns
\* null (nothing is thrown), and the dimension card then holds the escaped raw
\* response text, not an evaluation view.
C11_ParseFailureRendersRawText ==
    (response.t = "string" /\ ParseAttemptsFail(response.s)) =>
        /\ (parsed # Pending => parsed = Null)
        /\ (content # Pending =>
               /\ content.kind = "dimension-response"
               /\ Len(content.raw) = Len(response.s)
               /\ \A i \in 1..Len(response.s) :
                      content.raw[i] = IF response.s[i] = NL THEN "<br>"
                                       ELSE response.s[i])

\* A text with a fence around a broken document was rendered raw, its line
\* breaks escaped.
C11_Witness ==
    /\ response.t = "string"
    /\ ParseAttemptsFail(response.s)
    /\ matchFence(response.s).found
    /\ parsed = Null
    /\ content # Pending
    /\ content.kind = "dimension-response"
    /\ \E i \in 1..Len(content.raw) : content.raw[i] = "<br>"

\* C12: for a string input the result of parseResponseJSON is null or an
\* object; a bare scalar or an array is never returned.
C12_StringDecodesToObjectOrNull ==
    (response.t = "string" /\ parsed # Pending) =>
        (parsed = Null \/ parsed.t = "object")

\* C13: parseResponseJSON given an object returns that object, every key and
\* value as it was.
C13_ObjectPassesThrough ==
    (response.t = "object" /\ parsed # Pending) => parsed = response

C13_Witness ==
    /\ response.t = "object"
    /\ Len(response.kv) > 0
    /\ parsed = response
(***************************************************************************)
(* Claims about renderEvaluationView                                       *)
(***************************************************************************)
OverallPassKey == <<"overall_", "pass">>
FlagsKey == <<"flags">>

ViewRendered == content # Pending /\ content.kind = "evaluation-view"

\* C14: overall_pass is shown as true or false only when the decoded value is
\* a boolean, and is null for a string, a number, an object, an array or no
\* value; flags are shown only when the decoded value is an array, one item
\* per element, and are empty otherwise.
C14_PassOnlyBooleanFlagsOnlyArray ==
    ViewRendered =>
        LET pass == Get(parsed, OverallPassKey)
            flags == Get(parsed, FlagsKey)
        IN  /\ (pass = Bool(TRUE) => content.overallPass = Bool(TRUE))
            /\ (pass = Bool(FALSE) => content.overallPass = Bool(FALSE))
            /\ (pass.t # "boolean" => content.overallPass = Null)
            /\ (flags.t = "array" => Len(content.flags) = Len(flags.a))
            /\ (flags.t # "array" => content.flags = <<>>)

\* A document with "overall_pass": "true" and flags that are no array.
C14_Witness ==
    /\ ViewRendered
    /\ Get(parsed, OverallPassKey) = Str(<<"true">>)
    /\ Get(parsed, FlagsKey).t = "object"
    /\ content.overallPass = Null
    /\ content.flags = <<>>

\* The key k of the object o holds an object that has a score field.
Qualifies(o, k) ==
    /\ k \notin ReservedKeys
    /\ HasKey(o, k)
    /\ Get(o, k).t = "object"
    /\ HasKey(Get(o, k), ScoreKey)

KeysOf(o) == { o.kv[i].k : i \in 1..Len(o.kv) }
RowKeys == { content.metricRows[i].key : i \in 1..Len(content.metricRows) }

\* C15: the metric rows of a decoded object are exactly its entries whose key
\* is not reserved and whose value is an object (not null, not an array) with
\* a score field, one row for each.
C15_MetricRowsExactlyQualifyingEntries ==
    (ViewRendered /\ parsed.t = "object") =>
        /\ RowKeys = { k \in KeysOf(parsed) : Qualifies(parsed, k) }
        /\ \A i, j \in 1..Len(content.metricRows) :
               content.metricRows[i].key = content.metricRows[j].key => i = j

\* A reserved key and a metric key both hold {"score": 4}: one row.
C15_Witness ==
    /\ ViewRendered
    /\ parsed.t = "object"
    /\ \E k \in ReservedKeys : HasKey(Get(parsed, k), ScoreKey)
    /\ Len(content.metricRows) = 1
    /\ Qualifies(parsed, content.metricRows[1].key)

\* The qualifying keys of o in the order JSON.parse inserted them.
QualifyingInInsertionOrder(o) ==
    LET Keep(entry) == Qualifies(o, entry.k)
        kept == SelectSeq(o.kv, Keep)
    IN  [i \in 1..Len(kept) |-> kept[i].k]

\* C16: the metric rows come in the order in which their keys occur in the
\* decoded JSON document.
C16_RowsInInsertionOrder ==
    (ViewRendered /\ parsed.t = "object") =>
        [i \in 1..Len(content.metricRows) |-> content.metricRows[i].key]
            = QualifyingInInsertionOrder(parsed)
(***************************************************************************)
(* Claims about the presentation of a score (under SpecNormalize)          *)
(***************************************************************************)
\* The hue written in a style attribute (NaN when the style is empty).
HueOf(style) == parseFloat(SubSeq(style, 6, Len(style)))

\* The number a label reads as (NaN for a label that is no number).
LabelValue(label) == parseFloat(label)

\* C17: a null score is presented with class score-na, label N/A and no
\* style; PASS with class score-pass and the check-mark label; FAIL with class
\* score-fail and the ballot-x label; and the three functions agree on the
\* bucket: the class is score-gradient exactly when there is a color and
\* exactly when the label is a number, and each other class goes with its
\* own label.
C17_VerdictAndUnknownPresentation ==
    shown # Pending =>
        /\ (normalized = Null =>
               shown = [class |-> "score-na", style |-> <<>>, label |-> <<"N/A">>])
        /\ (normalized = PASS =>
               shown = [class |-> "score-pass", style |-> <<>>,
                        label |-> <<CheckMark, SP, "PASS">>])
        /\ (normalized = FAIL =>
               shown = [class |-> "score-fail", style |-> <<>>,
                        label |-> <<BallotX, SP, "FAIL">>])
        /\ (shown.class = "score-gradient" <=> shown.style # <<>>)
        /\ (shown.class = "score-gradient" <=> LabelValue(shown.label) # NaN)
        /\ (shown.class = "score-na" <=> shown.label = <<"N/A">>)
        /\ (shown.class = "score-pass" <=> shown.label = <<CheckMark, SP, "PASS">>)
        /\ (shown.class = "score-fail" <=> shown.label = <<BallotX, SP, "FAIL">>)

\* The string "pass" was normalised to PASS and presented.
C17_Witness ==
    /\ value = Str(<<"pass">>)
    /\ normalized = PASS
    /\ shown # Pending
    /\ shown.class = "score-pass"
    /\ shown.style = <<>>

\* |a - b| <= 1/20 for two numbers
WithinHalfTenth(a, b) ==
    LET d == a.m * Pow10(b.e) - b.m * Pow10(a.e)
    IN  20 * Abs(d) <= Pow10(a.e + b.e)

\* C18: a numeric score v is presented with class score-gradient; its hue is
\* clamp(v, 0, 5) / 5 * 120: 0 for v <= 0, 120 for v >= 5, 24 * v between;
\* its label is v itself to one decimal place, not the clamped value; and
\* the score is still the value normalizeScoreValue returned.
C18_NumericPresentation ==
    (shown # Pending /\ normalized.t = "number") =>
        LET v == normalized
            h == HueOf(shown.style)
            l == LabelValue(shown.label)
        IN  /\ shown.class = "score-gradient"
            /\ h.t = "number"
            /\ NumLeq(Num(0, 0), h) /\ NumLeq(h, Num(120, 0))
            /\ (NumLeq(v, Num(0, 0)) => h = Num(0, 0))
            /\ (NumLeq(Num(5, 0), v) => h = Num(120, 0))
            /\ ((~NumLeq(v, Num(0, 0)) /\ ~NumLeq(Num(5, 0), v)) =>
                   5 * h.m * Pow10(v.e) = 120 * v.m * Pow10(h.e))
            /\ Len(shown.label) >= 3
            /\ shown.label[Len(shown.label) - 1] = "."
            /\ IsDigit(shown.label[Len(shown.label)])
            /\ l.t = "number"
            /\ WithinHalfTenth(l, v)
            /\ normalized = normalizeScoreValue(value)

\* The score 7 is labelled 7.0 and coloured with hue 120.
C18_Witness ==
    /\ normalized = Num(7, 0)
    /\ shown # Pending
    /\ shown.label = <<"7", ".", "0">>
    /\ HueOf(shown.style) = Num(120, 0)
(***************************************************************************)
(* Claims about the score summary and the CSV export (under SpecSummary)   *)
(***************************************************************************)
ResultOfDimension(i) == Get(results, <<DIMENSION_ORDER[i]>>)

\* C19: renderScoreSummary writes one card per dimension of DIMENSION_ORDER,
\* in that order, whatever the results map holds; the card of a missing
\* dimension is labelled N/A.
C19_OneCardPerDimension ==
    cards # Pending =>
        /\ cards.t = "cards"
        /\ Len(cards.list) = Len(DIMENSION_ORDER)
        /\ \A i \in 1..Len(DIMENSION_ORDER) :
               /\ cards.list[i].shortName = DIMENSION_SHORT_NAMES(DIMENSION_ORDER[i])
               /\ (ResultOfDimension(i) = Undefined => cards.list[i].label = <<"N/A">>)

\* C20: whenever handleDownloadCsv writes a row, the summary cards of the same
\* results are on screen and the cell of every dimension is the label of
\* that dimension's card.
C20_CsvEqualsCardLabel ==
    (csv # Pending /\ csv.t = "csv") =>
        /\ cards.t = "cards"
        /\ \A i \in 1..Len(DIMENSION_ORDER) : csv.scores[i] = cards.list[i].label

\* A row was written for results with a missing dimension, a dimension
\* scored 7 and a dimension without any score.
C20_Witness ==
    /\ csv # Pending
    /\ csv.t = "csv"
    /\ \E i \in 1..Len(DIMENSION_ORDER) :
           ResultOfDimension(i) = Undefined /\ csv.scores[i] = <<"N/A">>
    /\ \E i \in 1..Len(DIMENSION_ORDER) :
           ResultOfDimension(i) = ResponseOnly(DocSeven)
           /\ csv.scores[i] = <<"7", ".", "0">>
    /\ \E i \in 1..Len(DIMENSION_ORDER) :
           ResultOfDimension(i) = ResponseOnly(ProsePlain) /\ csv.scores[i] = <<"N/A">>

(***************************************************************************)
(* Labels (formatLabel), one character per element                         *)
(***************************************************************************)
MaxKeyLen == 3

LowerLetters == {"a", "b"}
UpperLetters == {"A", "B", "Q"}
DigitChars == {"7"}

\* The characters a key is drawn from.
LabelChars == LowerLetters \cup {"Q", "7", "_", "-", " "}

\* \w of a JavaScript regular expression: [A-Za-z0-9_].
IsWordChar(c) == c \in LowerLetters \cup UpperLetters \cup DigitChars \cup {"_"}

\* String.prototype.toUpperCase on one character.
toUpperCase(c) ==
    CASE c = "a" -> "A"
      [] c = "b" -> "B"
      [] OTHER -> c

\* value.replace(/_/g, ' ')
replaceUnderscores(v) ==
    [i \in 1..Len(v) |-> IF v[i] = "_" THEN " " ELSE v[i]]

\* value.replace(/\b\w/g, char => char.toUpperCase()): /\b\w/ matches a word
\* character that has no word character before it.
capitalizeWordStarts(v) ==
    [i \in 1..Len(v) |->
        IF IsWordChar(v[i]) /\ (i = 1 \/ ~IsWordChar(v[i - 1]))
        THEN toUpperCase(v[i])
        ELSE v[i]]

formatLabel_KeepsUnderscores(v) == capitalizeWordStarts(v)

formatLabel(v) == capitalizeWordStarts(replaceUnderscores(v))

RECURSIVE CharsUpTo(_)
CharsUpTo(n) ==
    IF n = 0 THEN {<<>>}
    ELSE LET shorter == CharsUpTo(n - 1)
         IN shorter \cup {Append(s, c) : s \in {t \in shorter : Len(t) = n - 1}, c \in LabelChars}

LabelKeys == CharsUpTo(MaxKeyLen)

InitLabel ==
    /\ labelValue \in LabelKeys
    /\ labelText = Pending
    /\ DecodeIdle /\ NormalizeIdle /\ SummaryIdle
    /\ AppIdle /\ AdminIdle

FormatLabel ==
    /\ labelText = Pending
    /\ labelText' = Str(formatLabel(labelValue))
    /\ UNCHANGED <<labelValue, decodeVars, normalizeVars, summaryVars, appVars, adminVars>>

NextLabel == FormatLabel

SpecLabel == InitLabel /\ [][NextLabel]_vars

\* A letter or digit: the characters words are made of once underscores are spaces.
IsAlnum(c) == c \in LowerLetters \cup UpperLetters \cup DigitChars

\* Position i of s is the first character of a word of s.
StartsWord(s, i) == IsAlnum(s[i]) /\ (i = 1 \/ ~IsAlnum(s[i - 1]))

NoUnderscoreSameLength ==
    /\ Len(labelText.s) = Len(labelValue)
    /\ \A i \in 1..Len(labelText.s) : labelText.s[i] # "_"

\* C22 as stated: formatLabel(key) has no underscore, has the length of key,
\* and every word of it is an upper-case letter followed by lower-case letters.
C22_TitleCasedWords ==
    labelText # Pending =>
        /\ NoUnderscoreSameLength
        /\ \A i \in 1..Len(labelText.s) :
              IsAlnum(labelText.s[i]) =>
                  IF StartsWord(labelText.s, i)
                  THEN labelText.s[i] \in UpperLetters
                  ELSE labelText.s[i] \in LowerLetters

\* C22 amended: formatLabel(key) has no underscore, has the length of key, and
\* is key with each underscore turned into a space and the first character of
\* each word upper-cased; every other character is the one of key.
C22_WordStartsUpperCased ==
    labelText # Pending =>
        /\ NoUnderscoreSameLength
        /\ \A i \in 1..Len(labelText.s) :
              labelText.s[i] =
                  CASE labelValue[i] = "_" -> " "
                    [] labelValue[i] \in LowerLetters /\ StartsWord(labelValue, i) ->
                          CHOOSE u \in UpperLetters : toUpperCase(labelValue[i]) = u
                    [] OTHER -> labelValue[i]

C22_Witness ==
    /\ labelValue = <<"a", "_", "b">>
    /\ labelText = Str(<<"A", " ", "B">>)

\* p has the key overall_score and its value normalizes to null.
UnknownOverall(p) ==
    HasKey(p, OverallScoreKey) /\ normalizeScoreValue(Get(p, OverallScoreKey)) = Null

\* C23: when the JSON value extractScore parses (the contents of the fence, or
\* the whole input) has the key overall_score with a value that normalizes to
\* unknown, extractScore returns unknown (null) at once: neither the score
\* key, the whole-input parse, the pass/fail literals nor the numeric
\* patterns are consulted.
C23_UnknownOverallReturnsUnknown ==
    (TextScored /\ (UnknownOverall(FenceDecode(response.s))
                      \/ UnknownOverall(JSONParse(response.s))))
        => score = Null

\* An unrecognized string under overall_score, next to a score key and a
\* numeric pattern that would both have given 3.
C23_Witness ==
    /\ response = Str(DocUnknownOverall)
    /\ score = Null
    /\ normalizeScoreValue(Get(JSONParse(response.s), ScoreKey)) = Num(3, 0)
    /\ patternScore(response.s) = Num(3, 0)

(***************************************************************************)
(* The evaluation page: reviewer email, handleEvaluate, displayResults,    *)
(* resetToUpload, handleFetchTask                                          *)
(***************************************************************************)
MaxRequests == 2     \* handleEvaluate sends at most this many requests

REVIEWER_EMAIL_DOMAIN == <<"@turing.com">>

\* String.prototype.trim: white space at both ends removed.
RECURSIVE trimStart(_)
trimStart(s) ==
    IF s # <<>> /\ Head(s) \in {SP, NL} THEN trimStart(Tail(s)) ELSE s

RECURSIVE trimEnd(_)
trimEnd(s) ==
    IF s # <<>> /\ s[Len(s)] \in {SP, NL}
    THEN trimEnd(SubSeq(s, 1, Len(s) - 1))
    ELSE s

trim(s) == trimEnd(trimStart(s))

\* String.prototype.endsWith
endsWith(s, suffix) ==
    /\ Len(s) >= Len(suffix)
    /\ SubSeq(s, Len(s) - Len(suffix) + 1, Len(s)) = suffix

\* loadReviewerEmail, given the stored item: the trimmed item, or null.
loadReviewerEmail(saved) ==
    IF Truthy(saved) THEN Str(trim(saved.s)) ELSE Null

\* getReviewerEmail, given the value of the input and the stored item.
getReviewerEmail(input, saved) ==
    LET inputValue == trim(input)
    IN  IF inputValue # <<>> THEN Str(inputValue) ELSE loadReviewerEmail(saved)

isValidReviewerEmail(v) ==
    /\ v # <<>>
    /\ endsWith(toLowerCase(v), REVIEWER_EMAIL_DOMAIN)

\* updateEvaluateButtonState: the value given to evaluateBtn.disabled.
updateEvaluateButtonState(evaluating, hasEmail) ==
    IF evaluating THEN TRUE ELSE ~hasEmail

\* persistReviewerEmail(value) and the updateReviewerEmailUI(trimmed value) it
\* ends with, up to the call of updateEvaluateButtonState.
persistReviewerEmail(v) ==
    LET trimmed == trim(v)
        hasEmail == trimmed # <<>>
    IN  /\ savedEmail' = Str(trimmed)
        /\ reviewerEmailInput' = trimmed
        /\ reviewerEmailGroupHidden' = hasEmail

\* The value openEmailModal(prefill) gives the modal's input:
\* prefill || getReviewerEmail() || ''
modalPrefill(prefill, input, saved) ==
    IF prefill # <<>> THEN prefill
    ELSE IF Truthy(getReviewerEmail(input, saved)) THEN getReviewerEmail(input, saved).s
    ELSE <<>>

(***************************************************************************)
(* What the page is given                                                  *)
(***************************************************************************)
EmailTuring == <<"rev", "@turing.com">>
\* " Rev@TURING.COM ": padded, in upper case
EmailPadded == <<SP, "Rev", "@TURING.COM", SP>>
EmailOther == <<"rev", "@gmail.com">>

\* What a user leaves in an email field.
TypedEmails == { <<>>, EmailPadded, EmailOther }

\* What a user leaves in the task id field.
TypedTaskIds == { <<>>, <<SP>>, <<"t1">> }

\* The body of an OK response of /api/evaluate_task whose dimensions all
\* carry a response text.
BodyScored ==
    Obj(<< [k |-> <<"task_id">>, v |-> Str(<<"t1">>)],
           [k |-> <<"evaluation_results">>,
            v |-> Obj(ResultsObject([i \in 1..Len(DIMENSION_ORDER) |-> ResponseOnly(DocSeven)], 1))] >>)

\* The body of an OK response whose first dimension has an empty response.
BodyEmptyResponse ==
    Obj(<< [k |-> <<"task_id">>, v |-> Str(<<"t1">>)],
           [k |-> <<"evaluation_results">>,
            v |-> Obj(ResultsObject([i \in 1..Len(DIMENSION_ORDER) |->
                        IF i = 1 THEN ResponseOnly(<<>>) ELSE ResponseOnly(DocSeven)], 1))] >>)

OkBodies == { BodyScored, BodyEmptyResponse }

\* currentTaskData = { config: configData, results: resultsData }
TaskData == Obj(<< [k |-> <<"config">>, v |-> Obj(<<>>)], [k |-> <<"results">>, v |-> Obj(<<>>)] >>)

\* data.evaluation_results || {}
evaluationResultsOf(data) ==
    IF Truthy(Get(data, <<"evaluation_results">>))
    THEN Get(data, <<"evaluation_results">>)
    ELSE Obj(<<>>)

\* displayResults(data) throws after it has switched the sections: the
\* extractScore call of renderScoreSummary raises a TypeError.
displayResultsThrows(data) ==
    renderScoreSummary(evaluationResultsOf(data)) = TypeError

(***************************************************************************)
(* The page as a state machine                                             *)
(***************************************************************************)
notAppVars == <<decodeVars, normalizeVars, summaryVars, labelVars, adminVars>>

\* The page once init() has run: updateReviewerEmailUI(savedEmail), and the
\* modal opened when nothing is stored; nothing fetched, nothing evaluated.
InitApp ==
    /\ savedEmail \in {Null, Str(EmailTuring)}
    /\ LET saved == loadReviewerEmail(savedEmail)
           hasEmail == Truthy(saved)
       IN  /\ reviewerEmailInput = (IF hasEmail THEN saved.s ELSE <<>>)
           /\ reviewerEmailGroupHidden = hasEmail
           /\ evaluateBtnDisabled = updateEvaluateButtonState(FALSE, hasEmail)
           /\ emailModalHidden = hasEmail
    /\ modalEmailInput = <<>>
    /\ isEvaluating = FALSE
    /\ currentResults = Null
    /\ currentTaskData = Null
    /\ progressHidden = TRUE
    /\ uploadHidden = FALSE
    /\ resultsHidden = TRUE
    /\ taskIdInput = <<>>
    /\ evaluations = {}
    /\ started = 0
    /\ alerts = <<>>
    /\ fetchTaskBtnDisabled = FALSE
    /\ DecodeIdle /\ NormalizeIdle /\ SummaryIdle
    /\ LabelIdle /\ AdminIdle

\* The user edits the task id: the 'input' listener is clearTaskIdError.
TypeTaskId ==
    /\ \E t \in TypedTaskIds :
        /\ t # taskIdInput
        /\ taskIdInput' = t
    /\ UNCHANGED <<isEvaluating, currentResults, currentTaskData, evaluateBtnDisabled,
                   progressHidden, uploadHidden, resultsHidden, emailModalHidden,
                   reviewerEmailGroupHidden, savedEmail, reviewerEmailInput,
                   modalEmailInput, evaluations, started, alerts, fetchTaskBtnDisabled>>
    /\ UNCHANGED notAppVars

\* The user edits the reviewer email field of the form, which is shown while
\* reviewerEmailGroup is.
TypeReviewerEmail ==
    /\ reviewerEmailGroupHidden = FALSE
    /\ \E e \in TypedEmails :
        /\ e # reviewerEmailInput
        /\ reviewerEmailInput' = e
    /\ UNCHANGED <<isEvaluating, currentResults, currentTaskData, evaluateBtnDisabled,
                   progressHidden, uploadHidden, resultsHidden, emailModalHidden,
                   reviewerEmailGroupHidden, savedEmail, modalEmailInput, taskIdInput,
                   evaluations, started, alerts, fetchTaskBtnDisabled>>
    /\ UNCHANGED notAppVars

\* The user edits the email field of the modal, which is shown while
\* emailModal is.
TypeModalEmail ==
    /\ emailModalHidden = FALSE
    /\ \E e \in TypedEmails :
        /\ e # modalEmailInput
        /\ modalEmailInput' = e
    /\ UNCHANGED <<isEvaluating, currentResults, currentTaskData, evaluateBtnDisabled,
                   progressHidden, uploadHidden, resultsHidden, emailModalHidden,
                   reviewerEmailGroupHidden, savedEmail, reviewerEmailInput, taskIdInput,
                   evaluations, started, alerts, fetchTaskBtnDisabled>>
    /\ UNCHANGED notAppVars

\* handleSaveEmailClick
HandleSaveEmailClick ==
    LET v == trim(reviewerEmailInput)
    IN  /\ reviewerEmailGroupHidden = FALSE
        /\ IF ~isValidReviewerEmail(v)
           THEN UNCHANGED <<savedEmail, reviewerEmailInput, reviewerEmailGroupHidden,
                            evaluateBtnDisabled>>
           ELSE /\ persistReviewerEmail(v)
                /\ evaluateBtnDisabled' =
                       updateEvaluateButtonState(isEvaluating, trim(v) # <<>>)
        /\ UNCHANGED <<isEvaluating, currentResults, currentTaskData, progressHidden,
                       uploadHidden, resultsHidden, emailModalHidden, modalEmailInput,
                       taskIdInput, evaluations, started, alerts,
                       fetchTaskBtnDisabled>>
        /\ UNCHANGED notAppVars

\* handleModalSaveEmail
HandleModalSaveEmail ==
    LET v == trim(modalEmailInput)
    IN  /\ emailModalHidden = FALSE
        /\ IF ~isValidReviewerEmail(v)
           THEN UNCHANGED <<savedEmail, reviewerEmailInput, reviewerEmailGroupHidden,
                            evaluateBtnDisabled, emailModalHidden>>
           ELSE /\ persistReviewerEmail(v)
                /\ evaluateBtnDisabled' =
                       updateEvaluateButtonState(isEvaluating, trim(v) # <<>>)
                /\ emailModalHidden' = TRUE
        /\ UNCHANGED <<isEvaluating, currentResults, currentTaskData, progressHidden,
                       uploadHidden, resultsHidden, modalEmailInput, taskIdInput,
                       evaluations, started, alerts,
                       fetchTaskBtnDisabled>>
        /\ UNCHANGED notAppVars

\* A click on changeEmailBtn: openEmailModal(reviewerEmailInput.value.trim())
ChangeEmailClick ==
    /\ modalEmailInput' = modalPrefill(trim(reviewerEmailInput), reviewerEmailInput, savedEmail)
    /\ emailModalHidden' = FALSE
    /\ UNCHANGED <<isEvaluating, currentResults, currentTaskData, evaluateBtnDisabled,
                   progressHidden, uploadHidden, resultsHidden, reviewerEmailGroupHidden,
                   savedEmail, reviewerEmailInput, taskIdInput, evaluations, started, alerts, fetchTaskBtnDisabled>>
    /\ UNCHANGED notAppVars

\* handleEvaluate up to its first await. The listener is on the 'submit'
\* event of the form and tests neither isEvaluating nor the button.
HandleEvaluate ==
    LET taskId == trim(taskIdInput)
        reviewerEmail == getReviewerEmail(reviewerEmailInput, savedEmail)
    IN  /\ IF taskId = <<>>
           THEN \* showTaskIdError('Please enter a task ID'); return
                /\ UNCHANGED <<isEvaluating, evaluateBtnDisabled, progressHidden,
                               emailModalHidden, reviewerEmailGroupHidden, savedEmail,
                               reviewerEmailInput, modalEmailInput, evaluations, started>>
           ELSE IF ~Truthy(reviewerEmail)
           THEN \* openEmailModal(); return
                /\ modalEmailInput' = modalPrefill(<<>>, reviewerEmailInput, savedEmail)
                /\ emailModalHidden' = FALSE
                /\ UNCHANGED <<isEvaluating, evaluateBtnDisabled, progressHidden,
                               reviewerEmailGroupHidden, savedEmail, reviewerEmailInput,
                               evaluations, started>>
           ELSE /\ started < MaxRequests
                /\ persistReviewerEmail(reviewerEmail.s)
                /\ isEvaluating' = TRUE
                /\ evaluateBtnDisabled' = updateEvaluateButtonState(TRUE, TRUE)
                /\ progressHidden' = FALSE
                /\ started' = started + 1
                /\ evaluations' = evaluations \cup {started + 1}
                /\ UNCHANGED <<emailModalHidden, modalEmailInput>>
        /\ UNCHANGED <<currentResults, currentTaskData, uploadHidden, resultsHidden,
                       taskIdInput, alerts, fetchTaskBtnDisabled>>
        /\ UNCHANGED notAppVars

\* data.error of a response that is not OK.
TaskNotFound == "Task not found"
\* e.message when fetch rejects.
FailedToFetch == "Failed to fetch"
\* e.message of the TypeError extractScore raises inside displayResults.
NotAFunction == "response.match is not a function"

\* How apiFetch and res.json() settle: an OK response with its body, a
\* response that is not OK with its error, or a rejection (the network fails
\* or the body is no JSON).
Outcomes ==
    { [kind |-> "ok", data |-> d] : d \in OkBodies }
    \cup { [kind |-> "notOk", data |-> Obj(<<[k |-> <<"error">>, v |-> Str(<<TaskNotFound>>)]>>)],
           [kind |-> "rejected", data |-> Undefined] }

\* EvaluateSettles with the reset of isEvaluating and of the progress bar at
\* the end of the try block instead of in a finally block: an evaluation that
\* ends in alert(...) skips it.
EvaluateSettles_NoFinally ==
    \E id \in evaluations, o \in Outcomes :
        /\ evaluations' = evaluations \ {id}
        /\ IF o.kind = "ok"
           THEN /\ currentResults' = o.data
                /\ uploadHidden' = TRUE
                /\ resultsHidden' = FALSE
                /\ alerts' = (IF displayResultsThrows(o.data)
                              THEN Append(alerts, NotAFunction)
                              ELSE alerts)
           ELSE /\ alerts' = Append(alerts, IF o.kind = "notOk"
                                            THEN Get(o.data, <<"error">>).s[1]
                                            ELSE FailedToFetch)
                /\ UNCHANGED <<currentResults, uploadHidden, resultsHidden>>
        /\ IF alerts' = alerts
           THEN /\ isEvaluating' = FALSE
                /\ evaluateBtnDisabled' =
                       updateEvaluateButtonState(FALSE,
                           Truthy(getReviewerEmail(reviewerEmailInput, savedEmail)))
                /\ progressHidden' = TRUE
           ELSE UNCHANGED <<isEvaluating, evaluateBtnDisabled, progressHidden>>
        /\ UNCHANGED <<currentTaskData, emailModalHidden, reviewerEmailGroupHidden,
                       savedEmail, reviewerEmailInput, modalEmailInput, taskIdInput,
                       started, fetchTaskBtnDisabled>>
        /\ UNCHANGED notAppVars

\* EvaluateSettles storing the body before it looks at res.ok.
EvaluateSettles_StoresAnyBody ==
    \E id \in evaluations, o \in Outcomes :
        /\ evaluations' = evaluations \ {id}
        /\ IF o.kind = "ok"
           THEN /\ currentResults' = o.data
                /\ uploadHidden' = TRUE
                /\ resultsHidden' = FALSE
                /\ alerts' = (IF displayResultsThrows(o.data)
                              THEN Append(alerts, NotAFunction)
                              ELSE alerts)
           ELSE /\ alerts' = Append(alerts, IF o.kind = "notOk"
                                            THEN Get(o.data, <<"error">>).s[1]
                                            ELSE FailedToFetch)
                /\ currentResults' = (IF o.kind = "notOk" THEN o.data ELSE currentResults)
                /\ UNCHANGED <<uploadHidden, resultsHidden>>
        /\ isEvaluating' = FALSE
        /\ evaluateBtnDisabled' =
               updateEvaluateButtonState(FALSE,
                   Truthy(getReviewerEmail(reviewerEmailInput, savedEmail)))
        /\ progressHidden' = TRUE
        /\ UNCHANGED <<currentTaskData, emailModalHidden, reviewerEmailGroupHidden,
                       savedEmail, reviewerEmailInput, modalEmailInput, taskIdInput,
                       started, fetchTaskBtnDisabled>>
        /\ UNCHANGED notAppVars

\* The rest of one handleEvaluate call: an OK response is stored and
\* displayed; a non-OK response, a rejected fetch or a body that is no JSON
\* ends in alert(...); an exception of displayResults is caught and alerted
\* as well. The finally block runs in every case.
EvaluateSettles ==
    \E id \in evaluations, o \in Outcomes :
        /\ evaluations' = evaluations \ {id}
        /\ IF o.kind = "ok"
           THEN /\ currentResults' = o.data
                /\ uploadHidden' = TRUE
                /\ resultsHidden' = FALSE
                /\ alerts' = (IF displayResultsThrows(o.data)
                              THEN Append(alerts, NotAFunction)
                              ELSE alerts)
           ELSE /\ alerts' = Append(alerts, IF o.kind = "notOk"
                                            THEN Get(o.data, <<"error">>).s[1]
                                            ELSE FailedToFetch)
                /\ UNCHANGED <<currentResults, uploadHidden, resultsHidden>>
        /\ isEvaluating' = FALSE
        /\ evaluateBtnDisabled' =
               updateEvaluateButtonState(FALSE,
                   Truthy(getReviewerEmail(reviewerEmailInput, savedEmail)))
        /\ progressHidden' = TRUE
        /\ UNCHANGED <<currentTaskData, emailModalHidden, reviewerEmailGroupHidden,
                       savedEmail, reviewerEmailInput, modalEmailInput, taskIdInput,
                       started, fetchTaskBtnDisabled>>
        /\ UNCHANGED notAppVars

\* resetToUpload without currentTaskData = null.
ResetToUpload_KeepsTask ==
    /\ currentResults' = Null
    /\ taskIdInput' = <<>>
    /\ uploadHidden' = FALSE
    /\ resultsHidden' = TRUE
    /\ UNCHANGED <<isEvaluating, currentTaskData, evaluateBtnDisabled, progressHidden,
                   emailModalHidden, reviewerEmailGroupHidden, savedEmail,
                   reviewerEmailInput, modalEmailInput, evaluations,
                   started, alerts, fetchTaskBtnDisabled>>
    /\ UNCHANGED notAppVars

\* resetToUpload, the click listener of newEvalBtn
ResetToUpload ==
    /\ currentResults' = Null
    /\ currentTaskData' = Null
    /\ taskIdInput' = <<>>
    /\ uploadHidden' = FALSE
    /\ resultsHidden' = TRUE
    /\ UNCHANGED <<isEvaluating, evaluateBtnDisabled, progressHidden, emailModalHidden,
                   reviewerEmailGroupHidden, savedEmail, reviewerEmailInput,
                   modalEmailInput, evaluations, started, alerts,
                   fetchTaskBtnDisabled>>
    /\ UNCHANGED notAppVars

\* handleFetchTask up to its first await; a disabled button gets no click.
HandleFetchTask ==
    /\ fetchTaskBtnDisabled = FALSE
    /\ IF trim(taskIdInput) = <<>>
       THEN UNCHANGED fetchTaskBtnDisabled
       ELSE fetchTaskBtnDisabled' = TRUE
    /\ UNCHANGED <<isEvaluating, currentResults, currentTaskData, evaluateBtnDisabled,
                   progressHidden, uploadHidden, resultsHidden, emailModalHidden,
                   reviewerEmailGroupHidden, savedEmail, reviewerEmailInput,
                   modalEmailInput, taskIdInput, evaluations, started, alerts>>
    /\ UNCHANGED notAppVars

\* The rest of handleFetchTask: both fetches are OK and the task is kept, or
\* one of them fails and the error is shown; the button is enabled again.
FetchTaskSettles ==
    /\ fetchTaskBtnDisabled = TRUE
    /\ \E ok \in BOOLEAN :
        IF ok
        THEN currentTaskData' = TaskData
        ELSE UNCHANGED currentTaskData
    /\ fetchTaskBtnDisabled' = FALSE
    /\ UNCHANGED <<isEvaluating, currentResults, evaluateBtnDisabled, progressHidden,
                   uploadHidden, resultsHidden, emailModalHidden,
                   reviewerEmailGroupHidden, savedEmail, reviewerEmailInput,
                   modalEmailInput, taskIdInput, evaluations, started, alerts>>
    /\ UNCHANGED notAppVars

NextApp ==
    \/ TypeTaskId
    \/ TypeReviewerEmail
    \/ TypeModalEmail
    \/ HandleSaveEmailClick
    \/ HandleModalSaveEmail
    \/ ChangeEmailClick
    \/ HandleEvaluate
    \/ EvaluateSettles
    \/ ResetToUpload
    \/ HandleFetchTask
    \/ FetchTaskSettles

SpecApp == InitApp /\ [][NextApp]_vars

\* C24: while a request started by handleEvaluate is in flight the evaluate
\* button is disabled, under every interleaving of submit, save-email,
\* modal-save-email and response-arrival events, a second submit before the
\* first response included.
C24_ButtonDisabledWhileInFlight ==
    evaluations # {} => evaluateBtnDisabled = TRUE

\* C28: every reviewer email a handler has written to localStorage ends with
\* '@turing.com', letter case ignored.
C28_StoredEmailEndsWithDomain ==
    savedEmail # Null => endsWith(toLowerCase(savedEmail.s), REVIEWER_EMAIL_DOMAIN)

\* The evaluation page with every request settling in the end.
SpecAppLive == SpecApp /\ WF_vars(EvaluateSettles)

\* This step ends a handleEvaluate call that had sent its request.
EvaluationEnds == \E id \in evaluations : id \notin evaluations'

\* This step is a handleEvaluate call that one of the two checks rejects.
EvaluationRejected ==
    /\ HandleEvaluate
    /\ \/ trim(taskIdInput) = <<>>
       \/ ~Truthy(getReviewerEmail(reviewerEmailInput, savedEmail))

\* C25: every evaluation that passes the task-id and email checks ends, once
\* its request settles, with isEvaluating false and the progress indicator
\* hidden, whatever the outcome; an evaluation the checks reject never sets
\* isEvaluating and sends no request. A request leaves evaluations only
\* when its call ends, so that again and again none is in flight means that
\* every evaluation ends.
C25_EvaluationEndsNotEvaluating ==
    /\ [][ /\ EvaluationEnds => (isEvaluating' = FALSE /\ progressHidden' = TRUE)
           /\ EvaluationRejected => UNCHANGED <<isEvaluating, evaluations, started>>
           /\ started' # started =>
                 (isEvaluating' = TRUE /\ evaluations' = evaluations \cup {started'}) ]_vars
    /\ []<>(evaluations = {})

\* The one evaluation made ended in an exception of displayResults, and the
\* page is not evaluating.
C25_Witness ==
    /\ started = 1
    /\ evaluations = {}
    /\ alerts = <<NotAFunction>>
    /\ isEvaluating = FALSE
    /\ progressHidden = TRUE

\* This step alerts the failure of a request: a response that is not OK, or
\* an error thrown by the fetch or by reading the body.
RequestFailed ==
    /\ Len(alerts') = Len(alerts) + 1
    /\ alerts'[Len(alerts')] \in {TaskNotFound, FailedToFetch}

\* C26: when an evaluation request fails (a response that is not OK, or a
\* thrown error), handleEvaluate leaves currentResults as it was and does not
\* go from the upload view to the results view; currentResults is replaced
\* only by the body of an OK response.
C26_FailedRequestKeepsResults ==
    [][ /\ RequestFailed => UNCHANGED <<currentResults, uploadHidden, resultsHidden>>
        /\ (currentResults' # currentResults /\ currentResults' # Null) =>
              (EvaluationEnds /\ ~RequestFailed /\ currentResults' \in OkBodies) ]_vars

\* The one request made was answered with a response that is not OK: nothing
\* is stored and the upload view is still shown.
C26_Witness ==
    /\ started = 1
    /\ evaluations = {}
    /\ alerts = <<TaskNotFound>>
    /\ currentResults = Null
    /\ uploadHidden = FALSE
    /\ resultsHidden = TRUE

\* C27: after any sequence of displayResults and resetToUpload exactly one of
\* the upload section and the results section is visible, and whenever the
\* results section is visible currentResults is not null; resetToUpload sets
\* currentResults and currentTaskData to null and leaves the stored reviewer
\* email and isEvaluating as they are.
C27_OneSectionVisible ==
    /\ [](/\ uploadHidden # resultsHidden
          /\ resultsHidden = FALSE => currentResults # Null)
    /\ [][ResetToUpload =>
              /\ currentResults' = Null
              /\ currentTaskData' = Null
              /\ UNCHANGED <<savedEmail, isEvaluating>>]_vars

\* The one evaluation made was displayed without an alert and the page was
\* reset afterwards: the upload view is back and the stored email is kept.
C27_Witness ==
    /\ started = 1
    /\ evaluations = {}
    /\ alerts = <<>>
    /\ currentResults = Null
    /\ currentTaskData = Null
    /\ uploadHidden = FALSE
    /\ resultsHidden = TRUE
    /\ savedEmail # Null

(***************************************************************************)
(* The admin dashboard (admin.js)                                          *)
(***************************************************************************)
MaxResults == 3      \* a response lists at most this many evaluations
MaxLoads == 2        \* loadAdminResults is called at most this many times

UnknownText == <<"Unknown">>

\* escapeHtml of admin.js: the markup characters, no <br>.
adminEscapeHtml(text) ==
    [i \in 1..Len(text) |-> IF text[i] = NL THEN NL ELSE EscapeAtom(text[i])]

\* reviewerOf without the trim() call.
reviewerOf_Untrimmed(item) ==
    LET email == Get(item, <<"reviewer_email">>)
        given == IF Truthy(email) THEN email.s ELSE UnknownText
    IN  IF given # <<>> THEN given ELSE UnknownText

\* (item.reviewer_email || 'Unknown').trim() || 'Unknown'
reviewerOf(item) ==
    LET email == Get(item, <<"reviewer_email">>)
        given == IF Truthy(email) THEN email.s ELSE UnknownText
    IN  IF trim(given) # <<>> THEN trim(given) ELSE UnknownText

\* The callback of results.reduce: if (!acc[reviewer]) acc[reviewer] = [];
\* acc[reviewer].push(item)
pushItem(acc, item) ==
    LET reviewer == reviewerOf(item)
        items == IF Truthy(Get(acc, reviewer)) THEN Get(acc, reviewer).a ELSE <<>>
    IN  Obj(ObjSet(acc.kv, reviewer, Arr(Append(items, item))))

\* results.reduce(..., {})
RECURSIVE reduceByReviewer(_, _)
reduceByReviewer(items, acc) ==
    IF items = <<>> THEN acc
    ELSE reduceByReviewer(Tail(items), pushItem(acc, Head(items)))

\* .sort((a, b) => b[1].length - a[1].length): the sort is stable, an entry
\* goes behind the entries that have at least as many items.
RECURSIVE sortByCount(_, _)
sortByCount(sorted, rest) ==
    IF rest = <<>> THEN sorted
    ELSE LET g == Head(rest)
             before == Cardinality({ i \in 1..Len(sorted) : Len(sorted[i].v.a) >= Len(g.v.a) })
         IN  sortByCount(
                 SubSeq(sorted, 1, before) \o <<g>> \o SubSeq(sorted, before + 1, Len(sorted)),
                 Tail(rest))

\* String(item.task_id || 'Unknown'), escaped
taskIdOf(item) ==
    LET id == Get(item, <<"task_id">>)
    IN  adminEscapeHtml(IF Truthy(id) THEN StringOf(id) ELSE UnknownText)

\* One <details class="reviewer-group">: the name, the count of
\* "${count} tasks" and the task id of every <li> (the dates are left out).
reviewerGroup(entry) ==
    [reviewer |-> adminEscapeHtml(entry.k),
     count |-> Digits(Len(entry.v.a)),
     tasks |-> [i \in 1..Len(entry.v.a) |-> taskIdOf(entry.v.a[i])]]

\* renderGroupedByReviewer(results): the groups of the card, in order.
renderGroupedByReviewer(rs) ==
    LET grouped == reduceByReviewer(rs, Obj(<<>>))
        sorted == sortByCount(<<>>, entries(grouped))
    IN  [t |-> "admin-grouped-card",
         groups |-> [i \in 1..Len(sorted) |-> reviewerGroup(sorted[i])]]

\* String(result.reviewer_email || 'Unknown'), escaped
reviewerCell(item) ==
    LET email == Get(item, <<"reviewer_email">>)
    IN  adminEscapeHtml(IF Truthy(email) THEN StringOf(email) ELSE UnknownText)

\* What renderAdminResults(results) writes: the summary text, the table and
\* the grouped card. With no results the card is emptied.
renderAdminResults(rs) ==
    IF rs = <<>>
    THEN [summary |-> <<"No evaluations yet">>,
          table |-> [t |-> "empty-state", text |-> <<"No evaluations found.">>],
          grouped |-> Str(<<>>)]
    ELSE [summary |-> Digits(Len(rs)) \o <<" evaluations recorded">>,
          table |-> [t |-> "admin-results-table",
                     rows |-> [i \in 1..Len(rs) |->
                                  [taskId |-> taskIdOf(rs[i]), reviewer |-> reviewerCell(rs[i])]]],
          grouped |-> renderGroupedByReviewer(rs)]

(***************************************************************************)
(* What the dashboard is given                                             *)
(***************************************************************************)
AnnEmail == <<"ann@turing.com">>
BobEmail == <<"bob@turing.com">>

\* reviewer_email of one result: missing, null, empty, blank, an address, the
\* same address padded, another address.
ReviewerEmails ==
    { Undefined, Null, Str(<<>>), Str(<<SP>>), Str(AnnEmail),
      Str(<<SP>> \o AnnEmail \o <<SP>>), Str(BobEmail) }

\* The i-th result of a response: task ids differ from result to result.
Item(i, email) ==
    Obj(<<[k |-> <<"task_id">>, v |-> Str(<<"t">> \o Digits(i))]>>
        \o (IF email = Undefined THEN <<>>
            ELSE <<[k |-> <<"reviewer_email">>, v |-> email]>>))

ResultLists ==
    UNION { { [i \in 1..n |-> Item(i, f[i])] : f \in [1..n -> ReviewerEmails] } :
            n \in 0..MaxResults }

\* The results handed to renderAdminResults are rendered once.
InitGrouped ==
    /\ adminResults \in { Arr(rs) : rs \in ResultLists }
    /\ loads = <<>>
    /\ adminSummary = <<>>
    /\ adminTable = Str(<<>>)
    /\ adminGrouped = Str(<<>>)
    /\ DecodeIdle /\ NormalizeIdle /\ SummaryIdle
    /\ LabelIdle /\ AppIdle

\* renderAdminResults(results)
RenderAdminResults ==
    /\ adminSummary = <<>>
    /\ \E out \in {renderAdminResults(adminResults.a)} :
        /\ adminSummary' = out.summary
        /\ adminTable' = out.table
        /\ adminGrouped' = out.grouped
    /\ UNCHANGED <<loads, adminResults>>
    /\ UNCHANGED <<decodeVars, normalizeVars, summaryVars, labelVars, appVars>>

NextGrouped == RenderAdminResults

SpecGrouped == InitGrouped /\ [][NextGrouped]_vars

\* The key the claim gives a result: its trimmed reviewer_email, or 'Unknown'
\* when the address is missing or blank.
GroupKey(item) ==
    LET email == Get(item, <<"reviewer_email">>)
    IN  IF email.t = "string" /\ trim(email.s) # <<>> THEN trim(email.s) ELSE UnknownText

\* The task ids, in input order, of the results whose key is k.
RECURSIVE TasksKeyed(_, _)
TasksKeyed(rs, k) ==
    IF rs = <<>> THEN <<>>
    ELSE (IF GroupKey(Head(rs)) = k THEN <<Get(Head(rs), <<"task_id">>).s>> ELSE <<>>)
         \o TasksKeyed(Tail(rs), k)

RECURSIVE SumOfCounts(_)
SumOfCounts(groups) ==
    IF groups = <<>> THEN 0 ELSE Len(Head(groups).tasks) + SumOfCounts(Tail(groups))

Rendered == adminSummary # <<>> /\ adminResults.a # <<>>

\* C30: renderGroupedByReviewer partitions the results by reviewer: every
\* result is in exactly one group, the one keyed by its trimmed
\* reviewer_email or by 'Unknown' when that is missing or blank; the counts
\* of the groups sum to the number of results; the groups come in
\* non-increasing order of count; within a group the input order is kept.
C30_GroupsPartitionResults ==
    Rendered =>
        LET groups == adminGrouped.groups
            rs == adminResults.a
        IN  /\ \A i \in 1..Len(rs) :
                  \E g \in 1..Len(groups) :
                      /\ groups[g].reviewer = GroupKey(rs[i])
                      /\ \A h \in 1..Len(groups) :
                            (\E j \in 1..Len(groups[h].tasks) :
                                groups[h].tasks[j] = Get(rs[i], <<"task_id">>).s) <=> h = g
            /\ \A g \in 1..Len(groups) :
                  /\ groups[g].count = Digits(Len(groups[g].tasks))
                  /\ groups[g].tasks = TasksKeyed(rs, groups[g].reviewer)
            /\ SumOfCounts(groups) = Len(rs)
            /\ \A g \in 1..(Len(groups) - 1) :
                  Len(groups[g].tasks) >= Len(groups[g + 1].tasks)

\* Two results of ann, one of them with a padded address, around one
\* without reviewer: ann's group of two comes before the group Unknown.
C30_Witness ==
    /\ adminResults =
           Arr(<<Item(1, Undefined), Item(2, Str(<<SP>> \o AnnEmail \o <<SP>>)),
                 Item(3, Str(AnnEmail))>>)
    /\ adminGrouped.t = "admin-grouped-card"
    /\ Len(adminGrouped.groups) = 2
    /\ adminGrouped.groups[1].reviewer = AnnEmail
    /\ adminGrouped.groups[1].tasks = << <<"t", "2">>, <<"t", "3">> >>

(***************************************************************************)
(* loadAdminResults                                                        *)
(***************************************************************************)
\* How the request of one loadAdminResults call is answered: an OK response
\* with its results, a response that is not OK, or a rejection.
AdminResponses ==
    { [kind |-> "ok", results |-> rs] :
        rs \in { <<>>, <<Item(1, Str(AnnEmail))>>,
                 <<Item(1, Str(AnnEmail)), Item(2, Undefined)>> } }
    \cup { [kind |-> "notOk", results |-> <<>>], [kind |-> "rejected", results |-> <<>>] }

\* What one call writes into the summary and the table once its response is
\* there.
displayOf(r) ==
    CASE r.kind = "ok" ->
           [summary |-> renderAdminResults(r.results).summary,
            table |-> renderAdminResults(r.results).table]
      [] r.kind = "notOk" ->
           [summary |-> <<"Unable to load results.">>,
            table |-> [t |-> "empty-state", text |-> <<"Not authorized or no results.">>]]
      [] r.kind = "rejected" ->
           [summary |-> <<"Error loading results.">>,
            table |-> [t |-> "empty-state", text |-> <<"Unable to load results.">>]]

\* The dashboard once initAdmin() has run: the first loadAdminResults call is
\* waiting for its response.
InitAdmin ==
    /\ \E r \in AdminResponses : loads = <<[response |-> r, settled |-> FALSE]>>
    /\ adminSummary = <<"Loading...">>
    /\ adminTable = Str(<<>>)
    /\ adminGrouped = Str(<<>>)
    /\ adminResults = Undefined
    /\ DecodeIdle /\ NormalizeIdle /\ SummaryIdle
    /\ LabelIdle /\ AppIdle

\* A click on refreshAdminBtn: loadAdminResults up to its await.
LoadAdminResults ==
    /\ Len(loads) < MaxLoads
    /\ \E r \in AdminResponses :
        loads' = Append(loads, [response |-> r, settled |-> FALSE])
    /\ adminSummary' = <<"Loading...">>
    /\ adminTable' = Str(<<>>)
    /\ UNCHANGED <<adminGrouped, adminResults>>
    /\ UNCHANGED <<decodeVars, normalizeVars, summaryVars, labelVars, appVars>>

\* The response of one call arrives: the rest of loadAdminResults.
AdminResponseArrives ==
    \E i \in 1..Len(loads) :
        /\ loads[i].settled = FALSE
        /\ loads' = [loads EXCEPT ![i].settled = TRUE]
        /\ adminSummary' = displayOf(loads[i].response).summary
        /\ adminTable' = displayOf(loads[i].response).table
        /\ IF loads[i].response.kind = "ok"
           THEN /\ adminResults' = Arr(loads[i].response.results)
                /\ adminGrouped' = renderAdminResults(loads[i].response.results).grouped
           ELSE UNCHANGED <<adminGrouped, adminResults>>
        /\ UNCHANGED <<decodeVars, normalizeVars, summaryVars, labelVars, appVars>>

NextAdmin == LoadAdminResults \/ AdminResponseArrives

SpecAdmin == InitAdmin /\ [][NextAdmin]_vars

\* C29: when two or more loadAdminResults calls overlap, the summary and the
\* table displayed in the end are those of the call made last, whatever the
\* order in which the responses arrive.
C29_LastRequestWins ==
    (\A i \in 1..Len(loads) : loads[i].settled) =>
        /\ adminSummary = displayOf(loads[Len(loads)].response).summary
        /\ adminTable = displayOf(loads[Len(loads)].response).table

====
